---- MODULE Spec2Model ----
(***************************************************************************)
(* State-machine model of the snapshot store (DataService), the statistics *)
(* read model (StatisticsService) and the TLD extraction shared by the     *)
(* store, the statistics and the TLD detector.                             *)
(*                                                                         *)
(* JavaScript Map and Set keep insertion order; both are modelled as       *)
(* sequences (a Map as a sequence of <<key, value>> entries, a Set as a    *)
(* duplicate-free sequence).  Strings that the code splits (host names)    *)
(* are sequences of one-character strings.                                 *)
(*                                                                         *)
(* Instants are integers.  A file name's stamp is handed to new Date() as  *)
(* "YYYY:MM:DD HH:MM:SS", a format ECMAScript leaves to the engine: the    *)
(* engine either reads the instant or yields Invalid Date, on which        *)
(* toISOString() throws a RangeError before the store is touched.  The     *)
(* engine is fixed per run (dateParserAccepts).                            *)
(*                                                                         *)
(* Four specifications share the state: Spec (the store alone), SpecStats  *)
(* (store, statistics cache and wall clock), SpecReingest (one snapshot    *)
(* ingested twice) and SpecTLD (the three extractTLD copies on one host).  *)
(***************************************************************************)
EXTENDS Integers, Sequences, FiniteSets, TLC

VARIABLES
    configurationStore,   \* Map fileId -> ConfigurationFile
    hostIndex,            \* Map host -> Set target_id
    timelineIndex,        \* Map host -> Date[]
    tldIndex,             \* Map tld -> Set host
    methodIndex,          \* Map method -> Set target_id
    targetIndex,          \* Map target_id -> TargetConfig
    lastSnapshot,         \* StatisticsService.lastSnapshot (Null or a snapshot)
    snapshotTimestamp,    \* StatisticsService.snapshotTimestamp (ms, -1 = null)
    now,                  \* wall clock, ms
    dateParserAccepts,    \* does this engine's Date parse "YYYY:MM:DD HH:MM:SS"
    lastCall,             \* the last operation called and how it ended
    ingestedOk,           \* history: <<timestamp, data>> of the ingests that returned, in call order
    accepted,             \* history: Map timestamp -> data last stored under it
    returned,             \* what the last getStatistics() returned
    calls,                \* number of store operations called so far
    statCalls,            \* number of getStatistics() calls so far
    ticks,                \* number of clock advances so far
    phase,                \* re-ingest check: setup, ready, once, twice
    lastArgs,             \* re-ingest check: the arguments of the first ingest
    statsOnce,            \* re-ingest check: fresh statistics after the first
    tldHost,              \* TLD check: the host under test
    tldOut,               \* TLD check: results of the three extractTLD copies
    timelineCache,        \* TimelineService.timelineCache: Map cacheKey -> TimelineEntry[]
    timelineOut,          \* the last getTimeline(window) call and its outcome
    timelineCalls,        \* number of getTimeline() calls so far
    detIn,                \* detector check: the snapshots handed to detect()
    detOut,               \* detector check: the alerts each detector returned
    alerts,               \* AlertService.alerts: the alert log
    inflight,             \* the processConfiguration() calls: position, arguments, alerts so far
    alertOp,              \* the last clearAlerts() call: its argument
    clears,               \* number of clearAlerts() calls so far
    series,               \* trend check: the data points under test
    trendOut,             \* trend check: results of the TimelineServiceMath calls
    isRunning,            \* MonitoringService.isRunning
    lastProcessedTimestamp, \* MonitoringService.lastProcessedTimestamp (0 = null)
    lastFetch,            \* DirectoryParserService.lastFetch: set or not
    loops,                \* the startMonitoring() calls: where each is suspended
    audit,                \* history: stops that fell into a check pass, restarts,
                          \* timestamps of the files whose processing failed
    ingestCall,           \* reader check: the processConfigurationFile() call in flight
    readOut,              \* reader check: the last read and what it returned
    tlIn,                 \* bucket check: the observations under test
    tlOut                 \* bucket check: results of the TimelineService functions

storeVars == <<configurationStore, hostIndex, timelineIndex, tldIndex,
               methodIndex, targetIndex>>
statsVars == <<lastSnapshot, snapshotTimestamp>>
tldVars == <<tldHost, tldOut>>
timelineVars == <<timelineCache, timelineOut, timelineCalls>>
detVars == <<detIn, detOut>>
alertVars == <<alerts, inflight, alertOp, clears>>
trendVars == <<series, trendOut>>
monitorVars == <<isRunning, lastProcessedTimestamp, lastFetch, loops, audit>>
readerVars == <<ingestCall, readOut>>
bucketVars == <<tlIn, tlOut>>
lastVars == <<trendVars, monitorVars, readerVars, bucketVars>>
laterVars == <<timelineVars, detVars, alertVars, lastVars>>
vars == <<configurationStore, hostIndex, timelineIndex, tldIndex, methodIndex,
          targetIndex, lastSnapshot, snapshotTimestamp, now, dateParserAccepts,
          lastCall, returned, ingestedOk, accepted, calls, statCalls, ticks,
          phase, lastArgs, statsOnce, tldHost, tldOut, timelineCache,
          timelineOut, timelineCalls, detIn, detOut, alerts, inflight, alertOp,
          clears, series, trendOut, isRunning, lastProcessedTimestamp, lastFetch,
          loops, audit, ingestCall, readOut, tlIn, tlOut>>

(***************************************************************************)
(* Bounds                                                                  *)
(***************************************************************************)
MaxCalls == 2
MaxStatsIngests == 1
MaxStatCalls == 2
MaxTs == 2
MaxTargets == 2
MaxTicks == 2
MaxHostLen == 5
MaxTimelineIngests == 1
MaxTimelineCalls == 2
MaxDetectTargets == 2
MaxPrevTotal == 11
MaxCurTotal == 121
MaxAlertCalls == 2
MaxClears == 1
MaxAlertTicks == 1
\* data points in a series, at whole hours 0..MaxHour
MaxPoints == 6
MaxHour == 5
\* observations handed to groupTargetsByTimestamp
MaxObservations == 3
\* startMonitoring() calls that start a loop; files of the directory listing
MaxStarts == 2
MaxFiles == 2

(***************************************************************************)
(* Sequences, JavaScript Map and Set                                       *)
(***************************************************************************)
Range(s) == {s[i] : i \in DOMAIN s}

RECURSIVE Concat(_)
Concat(ss) == IF ss = <<>> THEN <<>> ELSE Head(ss) \o Concat(Tail(ss))

MapHas(m, k) == \E i \in DOMAIN m : m[i][1] = k
MapGet(m, k) == m[CHOOSE i \in DOMAIN m : m[i][1] = k][2]
MapSet(m, k, v) ==
    IF MapHas(m, k)
    THEN [i \in DOMAIN m |-> IF m[i][1] = k THEN <<k, v>> ELSE m[i]]
    ELSE Append(m, <<k, v>>)
MapKeys(m) == [i \in DOMAIN m |-> m[i][1]]
MapKeySet(m) == {m[i][1] : i \in DOMAIN m}

SetAddDup(s, x) == Append(s, x)
SetAdd(s, x) == IF x \in Range(s) THEN s ELSE Append(s, x)

\* Array.prototype.sort((a, b) => a.timestamp.getTime() - b.timestamp.getTime()):
\* stable, ascending by timestamp.
RECURSIVE InsertByTimestamp(_, _)
InsertByTimestamp(sorted, e) ==
    IF sorted = <<>> THEN <<e>>
    ELSE IF sorted[Len(sorted)].timestamp <= e.timestamp THEN Append(sorted, e)
    ELSE Append(InsertByTimestamp(SubSeq(sorted, 1, Len(sorted) - 1), e),
                sorted[Len(sorted)])

RECURSIVE SortByTimestamp(_)
SortByTimestamp(s) ==
    IF s = <<>> THEN <<>>
    ELSE InsertByTimestamp(SortByTimestamp(SubSeq(s, 1, Len(s) - 1)), s[Len(s)])

\* Array.prototype.sort((a, b) => b.count - a.count): stable, descending by count.
RECURSIVE InsertByCountDesc(_, _)
InsertByCountDesc(sorted, e) ==
    IF sorted = <<>> THEN <<e>>
    ELSE IF sorted[Len(sorted)].count >= e.count THEN Append(sorted, e)
    ELSE Append(InsertByCountDesc(SubSeq(sorted, 1, Len(sorted) - 1), e),
                sorted[Len(sorted)])

RECURSIVE SortByCountDesc(_)
SortByCountDesc(s) ==
    IF s = <<>> THEN <<>>
    ELSE InsertByCountDesc(SortByCountDesc(SubSeq(s, 1, Len(s) - 1)), s[Len(s)])

(***************************************************************************)
(* Host names and TLD extraction                                           *)
(***************************************************************************)
Dot == "."

\* String.prototype.split('.')
RECURSIVE Split(_)
Split(host) ==
    IF host = <<>> THEN << <<>> >>
    ELSE LET rest == Split(Tail(host)) IN
         IF Head(host) = Dot THEN << <<>> >> \o rest
         ELSE << <<Head(host)>> \o Head(rest) >> \o Tail(rest)

\* Array.prototype.join('.')
RECURSIVE Join(_)
Join(parts) ==
    IF parts = <<>> THEN <<>>
    ELSE IF Len(parts) = 1 THEN parts[1]
    ELSE parts[1] \o <<Dot>> \o Join(Tail(parts))

\* Array.prototype.slice(-2)
SliceLast2(parts) ==
    IF Len(parts) <= 2 THEN parts ELSE SubSeq(parts, Len(parts) - 1, Len(parts))

SliceLast1(parts) ==
    IF Len(parts) <= 1 THEN parts ELSE SubSeq(parts, Len(parts), Len(parts))

DataExtractTLDLastLabel(host) ==
    LET parts == Split(host) IN
    IF Len(parts) >= 2 THEN <<Dot>> \o Join(SliceLast1(parts)) ELSE host

DataExtractTLD(host) ==
    LET parts == Split(host) IN
    IF Len(parts) >= 2 THEN <<Dot>> \o Join(SliceLast2(parts)) ELSE host

StatsExtractTLD(host) ==
    LET parts == Split(host) IN
    IF Len(parts) >= 2 THEN <<Dot>> \o Join(SliceLast2(parts)) ELSE host

DetectorExtractTLD(host) ==
    LET parts == Split(host) IN
    IF Len(parts) < 2 THEN host ELSE <<Dot>> \o Join(SliceLast2(parts))

(***************************************************************************)
(* Inputs: target records, snapshots, file names                           *)
(***************************************************************************)
HostA == <<"m", ".", "e", ".", "g", ".", "l">>
HostB == <<"l">>

\* TargetConfig records the snapshots are built from: T1 observed under two
\* hosts with different configurations, and T2.
TargetPool ==
    { [target_id |-> "T1", host |-> HostA, ip |-> "ip1", type |-> "http",
       method |-> "GET", port |-> 80, use_ssl |-> FALSE, path |-> "/"],
      [target_id |-> "T1", host |-> HostB, ip |-> "ip2", type |-> "tcp",
       method |-> "POST", port |-> 443, use_ssl |-> TRUE, path |-> "/x"],
      [target_id |-> "T2", host |-> HostA, ip |-> "ip1", type |-> "http",
       method |-> "GET", port |-> 80, use_ssl |-> FALSE, path |-> "/"] }

TargetIds == {r.target_id : r \in TargetPool}
PoolHosts == {r.host : r \in TargetPool}

\* target_id is unique within a snapshot
TargetLists ==
    {s \in UNION {[1..n -> TargetPool] : n \in 0..MaxTargets} :
        \A i, j \in DOMAIN s : i # j => s[i].target_id # s[j].target_id}

\* ConfigurationFile as JSON.parse delivers it: targets may be null, and the
\* randoms list may be missing altogether.
Snapshots ==
    {[hasTargets |-> TRUE, targets |-> s, hasRandoms |-> r] :
        s \in TargetLists, r \in BOOLEAN}
    \cup {[hasTargets |-> FALSE, targets |-> <<>>, hasRandoms |-> r] : r \in BOOLEAN}

\* A file name is a sequence of segments: a YYYY-MM-DD_HH-MM-SS stamp (its
\* instant numbered 1..MaxTs) or other text.
Stamp(t) == [kind |-> "stamp", t |-> t]
Text == [kind |-> "text", t |-> 0]
Filenames ==
    {<<Text>>} \cup {<<Stamp(t), Text>> : t \in 1..MaxTs}
    \cup {<<Text, Stamp(MaxTs), Stamp(1)>>}

(***************************************************************************)
(* fileProcessors.extractTimestampFromFilename                             *)
(***************************************************************************)
\* filename.match(/(\d{4}-\d{2}-\d{2}_\d{2}-\d{2}-\d{2})/): the first stamp
RECURSIVE FirstStamp(_)
FirstStamp(name) ==
    IF name = <<>> THEN 0
    ELSE IF Head(name).kind = "stamp" THEN Head(name).t
    ELSE FirstStamp(Tail(name))

\* new Date("YYYY:MM:DD HH:MM:SS"): the string is not in the ECMAScript date
\* format, so the result depends on the engine: the instant, or Invalid Date.
NewDate(t) ==
    IF dateParserAccepts THEN [valid |-> TRUE, time |-> t]
    ELSE [valid |-> FALSE, time |-> 0]

extractTimestampFromFilenameLenient(filename) ==
    [threw |-> FALSE,
     date |-> [valid |-> TRUE, time |-> IF FirstStamp(filename) = 0 THEN 1
                                        ELSE FirstStamp(filename)]]

extractTimestampFromFilename(filename) ==
    IF FirstStamp(filename) = 0
    THEN [threw |-> TRUE, date |-> [valid |-> FALSE, time |-> 0]]
    ELSE [threw |-> FALSE, date |-> NewDate(FirstStamp(filename))]

\* Date.prototype.toISOString and new Date(isoString).getTime()
ToISOString(date) == [iso |-> date.time]
TimeOfISO(fileId) == fileId.iso

(***************************************************************************)
(* DataService                                                             *)
(***************************************************************************)
EmptyStore ==
    [configurationStore |-> <<>>, hostIndex |-> <<>>, timelineIndex |-> <<>>,
     tldIndex |-> <<>>, methodIndex |-> <<>>, targetIndex |-> <<>>]

CurrentStore ==
    [configurationStore |-> configurationStore, hostIndex |-> hostIndex,
     timelineIndex |-> timelineIndex, tldIndex |-> tldIndex,
     methodIndex |-> methodIndex, targetIndex |-> targetIndex]

MapGetOr(m, k, default) == IF MapHas(m, k) THEN MapGet(m, k) ELSE default

indexTarget(st, target, timestamp) ==
    LET tld == DataExtractTLD(target.host) IN
    [st EXCEPT
       !.targetIndex = MapSet(@, target.target_id, target),
       !.hostIndex = MapSet(@, target.host,
                            SetAdd(MapGetOr(@, target.host, <<>>), target.target_id)),
       !.tldIndex = MapSet(@, tld, SetAdd(MapGetOr(@, tld, <<>>), target.host)),
       !.methodIndex = MapSet(@, target.method,
                              SetAdd(MapGetOr(@, target.method, <<>>), target.target_id)),
       !.timelineIndex = MapSet(@, target.host,
                                Append(MapGetOr(@, target.host, <<>>), timestamp))]

\* data.targets.forEach(target => this.indexTarget(target, timestamp))
RECURSIVE IndexTargets(_, _, _)
IndexTargets(st, targets, timestamp) ==
    IF targets = <<>> THEN st
    ELSE IndexTargets(indexTarget(st, Head(targets), timestamp), Tail(targets),
                      timestamp)

\* The store after the call and the error the call raised ("none": it returned).
processConfigurationFileReplacing(st, filename, data) ==
    LET ex == extractTimestampFromFilename(filename) IN
    IF ex.threw THEN [st |-> st, error |-> "InvalidFilename"]
    ELSE IF ~ex.date.valid THEN [st |-> st, error |-> "RangeError"]
    ELSE LET fileId == ToISOString(ex.date)
             st1 == [EmptyStore EXCEPT
                       !.configurationStore = MapSet(@, fileId, data)]
             st2 == IF data.hasTargets
                    THEN IndexTargets(st1, data.targets, ex.date.time)
                    ELSE st1
         IN [st |-> st2, error |-> IF data.hasRandoms THEN "none" ELSE "TypeError"]

processConfigurationFile(st, filename, data) ==
    LET ex == extractTimestampFromFilename(filename) IN
    IF ex.threw THEN [st |-> st, error |-> "InvalidFilename"]
    ELSE IF ~ex.date.valid THEN [st |-> st, error |-> "RangeError"]
    ELSE LET fileId == ToISOString(ex.date)
             st1 == [st EXCEPT !.configurationStore = MapSet(@, fileId, data)]
             st2 == IF data.hasTargets
                    THEN IndexTargets(st1, data.targets, ex.date.time)
                    ELSE st1
         IN [st |-> st2, error |-> IF data.hasRandoms THEN "none" ELSE "TypeError"]

getTotalTargets(st) == Len(st.targetIndex)
getActiveHosts(st) == MapKeys(st.hostIndex)

getTargetsForHost(st, host) ==
    LET ids == MapGetOr(st.hostIndex, host, <<>>) IN
    Concat([i \in DOMAIN ids |->
              IF MapHas(st.targetIndex, ids[i])
              THEN <<MapGet(st.targetIndex, ids[i])>> ELSE <<>>])

\* config.targets?.find(t => t.target_id === targetId)
FindTarget(data, targetId) ==
    LET hits == {i \in DOMAIN data.targets : data.targets[i].target_id = targetId}
    IN IF data.hasTargets /\ hits # {}
       THEN <<data.targets[CHOOSE i \in hits : \A j \in hits : i <= j]>>
       ELSE <<>>

UnsortedTargetHistory(st, targetId) ==
    Concat([i \in DOMAIN st.configurationStore |->
              LET entry == st.configurationStore[i]
                  found == FindTarget(entry[2], targetId)
              IN IF found = <<>> THEN <<>>
                 ELSE <<[timestamp |-> TimeOfISO(entry[1]), config |-> found[1]]>>])

getTargetHistoryUnsorted(st, targetId) == UnsortedTargetHistory(st, targetId)

getTargetHistory(st, targetId) == SortByTimestamp(UnsortedTargetHistory(st, targetId))

getLatestUpdate(st) ==
    IF st.configurationStore = <<>> THEN 0
    ELSE CHOOSE t \in {TimeOfISO(k) : k \in MapKeySet(st.configurationStore)} :
            \A k \in MapKeySet(st.configurationStore) : TimeOfISO(k) <= t

(***************************************************************************)
(* StatisticsService                                                       *)
(***************************************************************************)
SNAPSHOT_VALIDITY == 5 * 60 * 1000

RECURSIVE GCD(_, _)
GCD(a, b) == IF b = 0 THEN a ELSE GCD(b, a % b)

\* JavaScript number results: a finite value is kept as an exact fraction.
NaN == [kind |-> "NaN", num |-> 0, den |-> 0]
Infinity == [kind |-> "Infinity", num |-> 0, den |-> 0]
Number(n, d) == [kind |-> "number", num |-> n \div GCD(n, d), den |-> d \div GCD(n, d)]

\* a / b for non-negative integers a, b
JSDivide(a, b) ==
    IF b = 0 THEN (IF a = 0 THEN NaN ELSE Infinity) ELSE Number(a, b)

\* (count / total) * 100
PercentageGuarded(count, total) ==
    IF total = 0 THEN Number(0, 1)
    ELSE Number(JSDivide(count, total).num * 100, JSDivide(count, total).den)

Percentage(count, total) ==
    LET q == JSDivide(count, total) IN
    IF q.kind = "number" THEN Number(q.num * 100, q.den) ELSE q

\* the keys of a Map filled by a forEach over s: first occurrences, in order
RECURSIVE DistinctInOrder(_)
DistinctInOrder(s) ==
    IF Len(s) <= 1 THEN s
    ELSE LET half == Len(s) \div 2
             seen == DistinctInOrder(SubSeq(s, 1, half))
             later == DistinctInOrder(SubSeq(s, half + 1, Len(s)))
         IN seen \o SelectSeq(later, LAMBDA x : x \notin Range(seen))

RECURSIVE SumSeq(_)
SumSeq(s) == IF s = <<>> THEN 0 ELSE Head(s) + SumSeq(Tail(s))

\* Array.prototype.slice(0, n)
Take(s, n) == IF Len(s) <= n THEN s ELSE SubSeq(s, 1, n)

getAllTargets(st) ==
    LET hosts == getActiveHosts(st) IN
    Concat([i \in DOMAIN hosts |-> getTargetsForHost(st, hosts[i])])

countUniqueHosts(targets) == Cardinality({targets[i].host : i \in DOMAIN targets})
countUniqueIPs(targets) == Cardinality({targets[i].ip : i \in DOMAIN targets})

calculateMethodDistribution(targets) ==
    LET keys == DistinctInOrder([i \in DOMAIN targets |-> targets[i].method])
        Of(m) == SelectSeq(targets, LAMBDA t : t.method = m)
    IN SortByCountDesc([k \in DOMAIN keys |->
         [method |-> keys[k],
          count |-> Len(Of(keys[k])),
          percentage |-> Percentage(Len(Of(keys[k])), Len(targets)),
          commonPaths |-> Take(DistinctInOrder(
              [i \in DOMAIN Of(keys[k]) |-> Of(keys[k])[i].path]), 10),
          commonTargets |-> Take(DistinctInOrder(
              [i \in DOMAIN Of(keys[k]) |-> Of(keys[k])[i].host]), 10)]])

calculateProtocolDistribution(targets) ==
    LET keys == DistinctInOrder([i \in DOMAIN targets |-> targets[i].type])
        Of(p) == SelectSeq(targets, LAMBDA t : t.type = p)
        Ports(p) == [i \in DOMAIN Of(p) |-> Of(p)[i].port]
    IN SortByCountDesc([k \in DOMAIN keys |->
         [protocol |-> keys[k],
          count |-> Len(Of(keys[k])),
          percentage |-> Percentage(Len(Of(keys[k])), Len(targets)),
          averagePort |-> JSDivide(SumSeq(Ports(keys[k])), Len(Ports(keys[k]))),
          commonPorts |-> Take(DistinctInOrder(Ports(keys[k])), 5)]])

COMMON_PORTS == {80, 443, 8080, 8443}

calculatePortDistribution(targets) ==
    LET keys == DistinctInOrder([i \in DOMAIN targets |-> targets[i].port])
        Of(p) == SelectSeq(targets, LAMBDA t : t.port = p)
    IN SortByCountDesc([k \in DOMAIN keys |->
         [port |-> keys[k],
          count |-> Len(Of(keys[k])),
          percentage |-> Percentage(Len(Of(keys[k])), Len(targets)),
          protocols |-> DistinctInOrder(
              [i \in DOMAIN Of(keys[k]) |-> Of(keys[k])[i].type]),
          isCommonPort |-> keys[k] \in COMMON_PORTS]])

calculateTLDDistribution(targets) ==
    LET keys == DistinctInOrder(
                    [i \in DOMAIN targets |-> StatsExtractTLD(targets[i].host)])
        Of(d) == SelectSeq(targets, LAMBDA t : StatsExtractTLD(t.host) = d)
    IN SortByCountDesc([k \in DOMAIN keys |->
         [tld |-> keys[k],
          count |-> Len(Of(keys[k])),
          percentage |-> Percentage(Len(Of(keys[k])), Len(targets)),
          hosts |-> DistinctInOrder(
              [i \in DOMAIN Of(keys[k]) |-> Of(keys[k])[i].host]),
          uniqueIPs |-> countUniqueIPs(Of(keys[k])),
          attackMethods |-> DistinctInOrder(
              [i \in DOMAIN Of(keys[k]) |-> Of(keys[k])[i].method])]])

calculateSSLStatsGuarded(targets) ==
    LET sslEnabled == SelectSeq(targets, LAMBDA t : t.use_ssl)
        sslDisabled == SelectSeq(targets, LAMBDA t : ~t.use_ssl)
        types == {sslEnabled[i].type : i \in DOMAIN sslEnabled}
    IN [enabled |-> Len(sslEnabled),
        disabled |-> Len(sslDisabled),
        percentage |-> PercentageGuarded(Len(sslEnabled), Len(targets)),
        byProtocol |-> [p \in types |->
                          Len(SelectSeq(sslEnabled, LAMBDA t : t.type = p))]]

calculateSSLStats(targets) ==
    LET sslEnabled == SelectSeq(targets, LAMBDA t : t.use_ssl)
        sslDisabled == SelectSeq(targets, LAMBDA t : ~t.use_ssl)
        types == {sslEnabled[i].type : i \in DOMAIN sslEnabled}
    IN [enabled |-> Len(sslEnabled),
        disabled |-> Len(sslDisabled),
        percentage |-> Percentage(Len(sslEnabled), Len(targets)),
        byProtocol |-> [p \in types |->
                          Len(SelectSeq(sslEnabled, LAMBDA t : t.type = p))]]

\* The StatisticsSnapshot computed from store st at wall-clock time clock.
generateNewSnapshot(st, clock) ==
    LET targets == getAllTargets(st) IN
    [computed |-> TRUE,
     timestamp |-> clock,
     totalTargets |-> Len(targets),
     uniqueHosts |-> countUniqueHosts(targets),
     uniqueIPs |-> countUniqueIPs(targets),
     methodDistribution |-> calculateMethodDistribution(targets),
     protocolDistribution |-> calculateProtocolDistribution(targets),
     portDistribution |-> calculatePortDistribution(targets),
     tldDistribution |-> calculateTLDDistribution(targets),
     sslStats |-> calculateSSLStats(targets)]

isSnapshotValidInclusive(snapshot, stamp, clock) ==
    /\ snapshot.computed
    /\ stamp # -1
    /\ clock - stamp <= SNAPSHOT_VALIDITY

isSnapshotValid(snapshot, stamp, clock) ==
    /\ snapshot.computed
    /\ stamp # -1
    /\ clock - stamp < SNAPSHOT_VALIDITY

(***************************************************************************)
(* Operations                                                              *)
(***************************************************************************)
NoSnapshot == [computed |-> FALSE]
NoCall == [op |-> "none", nameOk |-> TRUE, error |-> "none"]
NoArgs == [given |-> FALSE]
NoTLD == [done |-> FALSE, value |-> <<>>]
NoTimeline == [called |-> FALSE]
NoAlerts == [done |-> FALSE, alerts |-> <<>>]
NoDetIn == [given |-> FALSE]
NoDate == [given |-> FALSE]
IdleCall == [pc |-> "idle"]
NoTrend ==
    [trend |-> [done |-> FALSE, value |-> "stable"],
     changeRate |-> [done |-> FALSE, value |-> [kind |-> "number", num |-> 0, den |-> 1]],
     confidence |-> [done |-> FALSE, value |-> [kind |-> "number", num |-> 0, den |-> 1]]]
NoIngest ==
    [pc |-> "idle", filename |-> <<>>,
     data |-> [hasTargets |-> FALSE, targets |-> <<>>, hasRandoms |-> TRUE],
     before |-> EmptyStore, earlier |-> {}]
NoRead == [kind |-> "none", call |-> 0, arg |-> <<>>, value |-> <<>>]
NoBuckets ==
    [groups |-> [done |-> FALSE, value |-> <<>>],
     entries |-> [done |-> FALSE, value |-> <<>>],
     history |-> [done |-> FALSE, value |-> <<>>]]
NotStarted ==
    [pc |-> "none", since |-> 0, cycle |-> <<>>, files |-> <<>>, handled |-> <<>>]

InitCommon ==
    /\ configurationStore = <<>>
    /\ hostIndex = <<>>
    /\ timelineIndex = <<>>
    /\ tldIndex = <<>>
    /\ methodIndex = <<>>
    /\ targetIndex = <<>>
    /\ lastSnapshot = NoSnapshot
    /\ snapshotTimestamp = -1
    /\ now = 0
    /\ dateParserAccepts \in BOOLEAN
    /\ lastCall = NoCall
    /\ returned = NoSnapshot
    /\ ingestedOk = <<>>
    /\ accepted = <<>>
    /\ calls = 0
    /\ statCalls = 0
    /\ ticks = 0
    /\ phase = "setup"
    /\ lastArgs = NoArgs
    /\ statsOnce = NoSnapshot
    /\ tldOut = [data |-> NoTLD, stats |-> NoTLD, detector |-> NoTLD]
    /\ timelineCache = <<>>
    /\ timelineOut = NoTimeline
    /\ timelineCalls = 0
    /\ detOut = [targetChange |-> NoAlerts, hostPattern |-> NoAlerts,
                 volume |-> NoAlerts, tld |-> NoAlerts]
    /\ alerts = <<>>
    /\ inflight = [c \in 1..MaxAlertCalls |-> IdleCall]
    /\ alertOp = NoDate
    /\ clears = 0
    /\ trendOut = NoTrend
    /\ isRunning = FALSE
    /\ lastProcessedTimestamp = 0
    /\ lastFetch = NoDate
    /\ loops = [l \in 1..MaxStarts |-> NotStarted]
    /\ audit = [stopInPass |-> [l \in 1..MaxStarts |-> -1], excused |-> {},
                failed |-> {}]
    /\ ingestCall = NoIngest
    /\ readOut = NoRead
    /\ tlOut = NoBuckets

Init == InitCommon /\ tldHost = <<>> /\ detIn = NoDetIn /\ series = <<>> /\ tlIn = <<>>

SetStore(st) ==
    /\ configurationStore' = st.configurationStore
    /\ hostIndex' = st.hostIndex
    /\ timelineIndex' = st.timelineIndex
    /\ tldIndex' = st.tldIndex
    /\ methodIndex' = st.methodIndex
    /\ targetIndex' = st.targetIndex

\* DataService.processConfigurationFile(filename, data), with the history
\* variables that record what was ingested.
IngestCall(filename, data) ==
    LET r == processConfigurationFile(CurrentStore, filename, data)
        ex == extractTimestampFromFilename(filename)
        stored == ~ex.threw /\ ex.date.valid
    IN /\ SetStore(r.st)
       /\ lastCall' = [op |-> "ingest", nameOk |-> FirstStamp(filename) # 0,
                       error |-> r.error]
       /\ ingestedOk' = IF r.error = "none"
                        THEN Append(ingestedOk, <<ex.date.time, data>>)
                        ELSE ingestedOk
       /\ accepted' = IF stored THEN MapSet(accepted, ex.date.time, data)
                      ELSE accepted
       /\ calls' = calls + 1
       /\ UNCHANGED <<statsVars, returned, now, dateParserAccepts, statCalls,
                      ticks, tldVars, laterVars>>

Ingest ==
    /\ calls < MaxCalls
    /\ \E filename \in Filenames, data \in Snapshots : IngestCall(filename, data)
    /\ UNCHANGED <<phase, lastArgs, statsOnce>>

\* DataService.clearData()
ClearData ==
    /\ calls < MaxCalls
    /\ SetStore(EmptyStore)
    /\ lastCall' = [op |-> "clear", nameOk |-> TRUE, error |-> "none"]
    /\ ingestedOk' = <<>>
    /\ accepted' = <<>>
    /\ calls' = calls + 1
    /\ UNCHANGED <<statsVars, returned, now, dateParserAccepts, statCalls, ticks,
                   tldVars, phase, lastArgs, statsOnce, laterVars>>

Next == Ingest \/ ClearData

Spec == Init /\ [][Next]_vars

(***************************************************************************)
(* The store with the statistics cache and the wall clock                  *)
(***************************************************************************)
\* Only well-formed file names and snapshots here: an ingest that fails on its
\* file name leaves the store, and so the statistics, as they are, and one that
\* raises on a missing randoms list has indexed the same targets as one that
\* returns.
StampedFilenames == {<<Stamp(t), Text>> : t \in 1..MaxTs}
WellFormedSnapshots == {d \in Snapshots : d.hasRandoms}

StatsIngest ==
    /\ calls < MaxStatsIngests
    /\ \E filename \in StampedFilenames, data \in WellFormedSnapshots :
          IngestCall(filename, data)
    /\ UNCHANGED <<phase, lastArgs, statsOnce>>

\* StatisticsService.getStatistics()
GetStatistics ==
    /\ statCalls < MaxStatCalls
    /\ IF isSnapshotValid(lastSnapshot, snapshotTimestamp, now)
       THEN /\ returned' = lastSnapshot
            /\ UNCHANGED statsVars
       ELSE /\ returned' = generateNewSnapshot(CurrentStore, now)
            /\ lastSnapshot' = generateNewSnapshot(CurrentStore, now)
            /\ snapshotTimestamp' = now
    /\ lastCall' = [op |-> "statistics", nameOk |-> TRUE, error |-> "none"]
    /\ statCalls' = statCalls + 1
    /\ UNCHANGED <<storeVars, now, dateParserAccepts, ingestedOk, accepted, calls,
                   ticks, tldVars, phase, lastArgs, statsOnce, laterVars>>

\* Wall-clock time passes.
Tick ==
    /\ ticks < MaxTicks
    /\ \E d \in {1, SNAPSHOT_VALIDITY - 1} : now' = now + d
    /\ ticks' = ticks + 1
    /\ lastCall' = [op |-> "tick", nameOk |-> TRUE, error |-> "none"]
    /\ UNCHANGED <<storeVars, statsVars, returned, dateParserAccepts, ingestedOk,
                   accepted, calls, statCalls, tldVars, phase, lastArgs, statsOnce,
                   laterVars>>

NextStats == StatsIngest \/ GetStatistics \/ Tick

SpecStats == Init /\ [][NextStats]_vars

(***************************************************************************)
(* Ingesting one snapshot twice under the same file name                   *)
(***************************************************************************)
\* an earlier ingest that brings the store into some state
SetupIngest ==
    /\ phase = "setup"
    /\ \E filename \in Filenames, data \in Snapshots : IngestCall(filename, data)
    /\ phase' = "ready"
    /\ UNCHANGED <<lastArgs, statsOnce>>

IngestOnce ==
    /\ phase \in {"setup", "ready"}
    /\ \E filename \in Filenames, data \in Snapshots :
         /\ IngestCall(filename, data)
         /\ lastArgs' = [given |-> TRUE, filename |-> filename, data |-> data]
         /\ statsOnce' = generateNewSnapshot(
                processConfigurationFile(CurrentStore, filename, data).st, now)
    /\ phase' = "once"

IngestTwice ==
    /\ phase = "once"
    /\ IngestCall(lastArgs.filename, lastArgs.data)
    /\ phase' = "twice"
    /\ UNCHANGED <<lastArgs, statsOnce>>

NextReingest == SetupIngest \/ IngestOnce \/ IngestTwice

SpecReingest == Init /\ [][NextReingest]_vars

(***************************************************************************)
(* The three copies of extractTLD on one host                              *)
(***************************************************************************)
HostAlphabet == {"a", "b", Dot}
TLDHosts ==
    UNION {[1..n -> HostAlphabet] : n \in 0..MaxHostLen} \cup PoolHosts

InitTLD == InitCommon /\ tldHost \in TLDHosts /\ detIn = NoDetIn /\ series = <<>> /\ tlIn = <<>>

TLDOther ==
    <<storeVars, statsVars, returned, now, dateParserAccepts, lastCall, ingestedOk,
      accepted, calls, statCalls, ticks, phase, lastArgs, statsOnce, tldHost,
      laterVars>>

StoreExtractsTLD ==
    /\ ~tldOut.data.done
    /\ tldOut' = [tldOut EXCEPT !.data = [done |-> TRUE,
                                          value |-> DataExtractTLD(tldHost)]]
    /\ UNCHANGED TLDOther

StatisticsExtractsTLD ==
    /\ ~tldOut.stats.done
    /\ tldOut' = [tldOut EXCEPT !.stats = [done |-> TRUE,
                                           value |-> StatsExtractTLD(tldHost)]]
    /\ UNCHANGED TLDOther

DetectorExtractsTLD ==
    /\ ~tldOut.detector.done
    /\ tldOut' = [tldOut EXCEPT !.detector = [done |-> TRUE,
                                              value |-> DetectorExtractTLD(tldHost)]]
    /\ UNCHANGED TLDOther

NextTLD == StoreExtractsTLD \/ StatisticsExtractsTLD \/ DetectorExtractsTLD

SpecTLD == InitTLD /\ [][NextTLD]_vars

(***************************************************************************)
(* TimelineService                                                         *)
(***************************************************************************)
MAX_CACHE_AGE == 30 * 60 * 1000
TIME_WINDOW_THRESHOLD == 15 * 60 * 1000

DateOf(t) == [valid |-> TRUE, time |-> t]

\* getAllTargetsInWindow(window): every target of every active host, each
\* stamped with new Date(), then filtered by the window.
getAllTargetsInWindow(st, window, clock) ==
    LET hosts == getActiveHosts(st)
        configs == [i \in DOMAIN hosts |->
                      LET targets == getTargetsForHost(st, hosts[i]) IN
                      [j \in DOMAIN targets |->
                          [target |-> targets[j], timestamp |-> clock]]]
    IN SelectSeq(Concat(configs),
                 LAMBDA item : /\ item.timestamp >= window.start
                               /\ item.timestamp <= window.end)

\* the same loop with a window that ends before the threshold
RECURSIVE GroupFromExclusive(_, _, _, _)
GroupFromExclusive(rest, currentWindow, currentTargets, grouped) ==
    LET flushed == IF currentTargets # <<>>
                   THEN MapSet(grouped, ToISOString(DateOf(currentWindow)),
                               currentTargets)
                   ELSE grouped
    IN IF rest = <<>> THEN flushed
       ELSE IF Head(rest).timestamp - currentWindow >= TIME_WINDOW_THRESHOLD
       THEN GroupFromExclusive(Tail(rest), Head(rest).timestamp,
                               <<Head(rest).target>>, flushed)
       ELSE GroupFromExclusive(Tail(rest), currentWindow,
                               Append(currentTargets, Head(rest).target), grouped)

\* the forEach of groupTargetsByTimestamp and the flush after it
RECURSIVE GroupFrom(_, _, _, _)
GroupFrom(rest, currentWindow, currentTargets, grouped) ==
    LET flushed == IF currentTargets # <<>>
                   THEN MapSet(grouped, ToISOString(DateOf(currentWindow)),
                               currentTargets)
                   ELSE grouped
    IN IF rest = <<>> THEN flushed
       ELSE IF Head(rest).timestamp - currentWindow > TIME_WINDOW_THRESHOLD
       THEN GroupFrom(Tail(rest), Head(rest).timestamp, <<Head(rest).target>>,
                      flushed)
       ELSE GroupFrom(Tail(rest), currentWindow,
                      Append(currentTargets, Head(rest).target), grouped)

groupTargetsByTimestamp(targets) ==
    LET sortedTargets == SortByTimestamp(targets) IN
    IF sortedTargets = <<>> THEN <<>>
    ELSE GroupFrom(sortedTargets, sortedTargets[1].timestamp, <<>>, <<>>)

\* targets.find(t => t.target_id === targetId): <<>> is undefined
findTarget(targets, targetId) ==
    LET hits == {i \in DOMAIN targets : targets[i].target_id = targetId}
    IN IF hits = {} THEN <<>>
       ELSE <<targets[CHOOSE i \in hits : \A j \in hits : i <= j]>>

\* the five comparisons of detectConfigChanges for one pair of configurations
ChangesBetween(prevTarget, currentTarget) ==
    LET change(changeType, field) ==
            IF prevTarget[field] # currentTarget[field]
            THEN <<[targetId |-> prevTarget.target_id, host |-> prevTarget.host,
                    changeType |-> changeType, oldValue |-> prevTarget[field],
                    newValue |-> currentTarget[field]]>>
            ELSE <<>>
    IN change("method", "method") \o change("protocol", "type")
       \o change("port", "port") \o change("path", "path")
       \o change("ssl", "use_ssl")

\* previousTargets holds <<>> where findTarget found nothing
detectConfigChanges(previousTargets, currentTargets) ==
    LET last(id) == currentTargets[CHOOSE i \in DOMAIN currentTargets :
                        /\ currentTargets[i].target_id = id
                        /\ \A j \in DOMAIN currentTargets :
                              currentTargets[j].target_id = id => j <= i]
        has(id) == \E i \in DOMAIN currentTargets : currentTargets[i].target_id = id
    IN Concat([k \in DOMAIN previousTargets |->
          IF previousTargets[k] = <<>> THEN <<>>
          ELSE IF ~has(previousTargets[k][1].target_id) THEN <<>>
          ELSE ChangesBetween(previousTargets[k][1],
                              last(previousTargets[k][1].target_id))])

\* Array.prototype.sort() on ISO strings: ascending
RECURSIVE SortISO(_)
SortISO(keys) ==
    IF keys = <<>> THEN <<>>
    ELSE LET m == CHOOSE i \in DOMAIN keys :
                     \A j \in DOMAIN keys : keys[i].iso <= keys[j].iso
         IN <<keys[m]>> \o SortISO([i \in 1..(Len(keys) - 1) |->
                                       IF i < m THEN keys[i] ELSE keys[i + 1]])

\* the loop of createTimelineEntries over the sorted keys
RECURSIVE EntriesFrom(_, _, _)
EntriesFrom(timestamps, previousTargets, targetsByTimestamp) ==
    IF timestamps = <<>> THEN <<>>
    ELSE LET currentTargets == MapGet(targetsByTimestamp, Head(timestamps))
             currentTargetIds ==
                 DistinctInOrder([i \in DOMAIN currentTargets |->
                                     currentTargets[i].target_id])
             all == Concat([i \in DOMAIN targetsByTimestamp |->
                               targetsByTimestamp[i][2]])
             found == [i \in DOMAIN previousTargets |->
                          findTarget(all, previousTargets[i])]
             gone == SelectSeq(previousTargets,
                               LAMBDA id : id \notin Range(currentTargetIds))
             entry ==
                 [timestamp |-> TimeOfISO(Head(timestamps)),
                  targetCount |-> Len(currentTargets),
                  uniqueHosts |-> Cardinality({currentTargets[i].host :
                                                  i \in DOMAIN currentTargets}),
                  newTargets |-> SelectSeq(currentTargets,
                      LAMBDA t : t.target_id \notin Range(previousTargets)),
                  removedTargets |-> Concat([i \in DOMAIN gone |->
                                               findTarget(all, gone[i])]),
                  configChanges |-> detectConfigChanges(found, currentTargets)]
         IN <<entry>> \o EntriesFrom(Tail(timestamps), currentTargetIds,
                                     targetsByTimestamp)

createTimelineEntries(targetsByTimestamp) ==
    EntriesFrom(SortISO(MapKeys(targetsByTimestamp)), <<>>, targetsByTimestamp)

areConfigsEqual(config1, config2) ==
    /\ config1.method = config2.method
    /\ config1.type = config2.type
    /\ config1.port = config2.port
    /\ config1.path = config2.path
    /\ config1.use_ssl = config2.use_ssl

\* the loop of the same function with a gap that must stay under the threshold
RECURSIVE AppearancesFromExclusive(_, _, _)
AppearancesFromExclusive(rest, currentAppearance, appearances) ==
    IF rest = <<>> THEN Append(appearances, currentAppearance)
    ELSE LET current == Head(rest)
             timeDiff == current.timestamp - currentAppearance.end
         IN IF /\ timeDiff < TIME_WINDOW_THRESHOLD
               /\ areConfigsEqual(currentAppearance.config, current.config)
            THEN AppearancesFromExclusive(Tail(rest),
                     [currentAppearance EXCEPT !.end = current.timestamp],
                     appearances)
            ELSE AppearancesFromExclusive(Tail(rest),
                     [start |-> current.timestamp, end |-> current.timestamp,
                      config |-> current.config],
                     Append(appearances, currentAppearance))

\* the loop of processAppearances from history[1] on and the push after it
RECURSIVE AppearancesFrom(_, _, _)
AppearancesFrom(rest, currentAppearance, appearances) ==
    IF rest = <<>> THEN Append(appearances, currentAppearance)
    ELSE LET current == Head(rest)
             timeDiff == current.timestamp - currentAppearance.end
         IN IF /\ timeDiff <= TIME_WINDOW_THRESHOLD
               /\ areConfigsEqual(currentAppearance.config, current.config)
            THEN AppearancesFrom(Tail(rest),
                     [currentAppearance EXCEPT !.end = current.timestamp],
                     appearances)
            ELSE AppearancesFrom(Tail(rest),
                     [start |-> current.timestamp, end |-> current.timestamp,
                      config |-> current.config],
                     Append(appearances, currentAppearance))

processAppearances(history) ==
    IF history = <<>> THEN <<>>
    ELSE AppearancesFrom(Tail(history),
                         [start |-> history[1].timestamp,
                          end |-> history[1].timestamp,
                          config |-> history[1].config],
                         <<>>)

processConfigChanges(history) ==
    Concat([i \in 1..(Len(history) - 1) |->
              detectConfigChanges(<<<<history[i].config>>>>,
                                  <<history[i + 1].config>>)])

\* called with a history that is not empty (getTargetHistory, line 86)
processTargetHistory(history) ==
    [targetId |-> history[1].config.target_id,
     host |-> history[1].config.host,
     firstSeen |-> history[1].timestamp,
     lastSeen |-> history[Len(history)].timestamp,
     appearances |-> processAppearances(history),
     configChanges |-> processConfigChanges(history)]

isCacheValid(timestamp, clock) == (clock - timestamp) < MAX_CACHE_AGE

\* getTimeline(window) on a store and a cache, at a wall-clock instant.
\* Reading cached[0].timestamp of a cached empty timeline raises a TypeError.
getTimeline(st, cache, window, clock) ==
    LET cacheKey == <<ToISOString(DateOf(window.start)),
                      ToISOString(DateOf(window.end))>>
        hit == MapHas(cache, cacheKey)
        timeline == createTimelineEntries(groupTargetsByTimestamp(
                        getAllTargetsInWindow(st, window, clock)))
    IN IF hit /\ MapGet(cache, cacheKey) = <<>>
       THEN [threw |-> TRUE, timeline |-> <<>>, cache |-> cache]
       ELSE IF hit /\ isCacheValid(MapGet(cache, cacheKey)[1].timestamp, clock)
       THEN [threw |-> FALSE, timeline |-> MapGet(cache, cacheKey),
             cache |-> cache]
       ELSE [threw |-> FALSE, timeline |-> timeline,
             cache |-> MapSet(cache, cacheKey, timeline)]

(***************************************************************************)
(* The store, the wall clock and the timeline                              *)
(***************************************************************************)
WindowTimes == 0..MaxTs \cup {MAX_CACHE_AGE, MAX_CACHE_AGE + MaxTs}
Windows == {w \in [start : WindowTimes, end : WindowTimes] : w.start <= w.end}

TimelineOther ==
    <<statsVars, returned, dateParserAccepts, ingestedOk, accepted, calls,
      statCalls, tldVars, phase, lastArgs, statsOnce, detVars, alertVars,
      lastVars>>

TimelineIngest ==
    /\ calls < MaxTimelineIngests
    /\ \E filename \in StampedFilenames, data \in WellFormedSnapshots :
          IngestCall(filename, data)
    /\ UNCHANGED <<phase, lastArgs, statsOnce>>

GetTimeline ==
    /\ timelineCalls < MaxTimelineCalls
    /\ \E window \in Windows :
          LET r == getTimeline(CurrentStore, timelineCache, window, now) IN
          /\ timelineCache' = r.cache
          /\ timelineOut' = [called |-> TRUE, window |-> window,
                             threw |-> r.threw, timeline |-> r.timeline]
    /\ timelineCalls' = timelineCalls + 1
    /\ lastCall' = [op |-> "timeline", nameOk |-> TRUE, error |-> "none"]
    /\ UNCHANGED <<storeVars, now, ticks, TimelineOther>>

TimelineTick ==
    /\ ticks < MaxTicks
    /\ \E d \in {1, MAX_CACHE_AGE} : now' = now + d
    /\ ticks' = ticks + 1
    /\ lastCall' = [op |-> "tick", nameOk |-> TRUE, error |-> "none"]
    /\ UNCHANGED <<storeVars, timelineVars, TimelineOther>>

NextTimeline == TimelineIngest \/ GetTimeline \/ TimelineTick

SpecTimeline == Init /\ [][NextTimeline]_vars

(***************************************************************************)
(* Alerts: idGenerator and the four detectors                              *)
(*                                                                         *)
(* An alert carries id, type, category, severity, timestamp and context;   *)
(* its title and description render the context as text and its metadata   *)
(* is empty, so they are left out.  The random part of an id is the        *)
(* position of the draw: <<call, detector, index>>.                        *)
(***************************************************************************)
generateId(clock, random) == [prefix |-> "", time |-> clock, random |-> random]
generateAlertId(clock, random) ==
    [prefix |-> "alert-", time |-> generateId(clock, random).time,
     random |-> generateId(clock, random).random]

\* the object literal of createAlert / createVolumeAlert / createTLDAlert,
\* before its id is drawn
createAlert(type, category, severity, context, clock) ==
    [id |-> <<>>, type |-> type, category |-> category, severity |-> severity,
     timestamp |-> clock, context |-> context]

\* new Map(targets.map(t => [t.target_id, t]))
RECURSIVE TargetsById(_)
TargetsById(targets) ==
    IF targets = <<>> THEN <<>>
    ELSE MapSet(TargetsById(SubSeq(targets, 1, Len(targets) - 1)),
                targets[Len(targets)].target_id, targets[Len(targets)])

\* ---- TargetChangeDetector ----
FieldChange(prevTarget, newTarget, type, field, severity, clock) ==
    IF prevTarget[field] # newTarget[field]
    THEN <<createAlert(type, "HOST_PATTERN", severity,
                       [targetId |-> newTarget.target_id, host |-> newTarget.host,
                        oldValue |-> prevTarget[field],
                        newValue |-> newTarget[field]], clock)>>
    ELSE <<>>

detectChangesFirstOnly(prevTarget, newTarget, clock) ==
    Take(FieldChange(prevTarget, newTarget, "METHOD_CHANGE", "method", "HIGH", clock)
         \o FieldChange(prevTarget, newTarget, "PROTOCOL_CHANGE", "type", "HIGH", clock)
         \o FieldChange(prevTarget, newTarget, "PORT_CHANGE", "port", "MEDIUM", clock)
         \o FieldChange(prevTarget, newTarget, "SSL_CHANGE", "use_ssl", "HIGH", clock)
         \o FieldChange(prevTarget, newTarget, "PATH_CHANGE", "path", "MEDIUM", clock),
         1)

detectChanges(prevTarget, newTarget, clock) ==
    FieldChange(prevTarget, newTarget, "METHOD_CHANGE", "method", "HIGH", clock)
    \o FieldChange(prevTarget, newTarget, "PROTOCOL_CHANGE", "type", "HIGH", clock)
    \o FieldChange(prevTarget, newTarget, "PORT_CHANGE", "port", "MEDIUM", clock)
    \o FieldChange(prevTarget, newTarget, "SSL_CHANGE", "use_ssl", "HIGH", clock)
    \o FieldChange(prevTarget, newTarget, "PATH_CHANGE", "path", "MEDIUM", clock)

createNewTargetAlert(target, clock) ==
    createAlert("TARGET_APPEARED", "HOST_PATTERN", "HIGH",
                [targetId |-> target.target_id, host |-> target.host,
                 ip |-> target.ip], clock)

createRemovedTargetAlert(target, clock) ==
    createAlert("TARGET_DISAPPEARED", "HOST_PATTERN", "MEDIUM",
                [targetId |-> target.target_id, host |-> target.host,
                 ip |-> target.ip], clock)

\* the ids of the alerts of one detect() call, drawn in order
Identified(detector, drafts, clock, rand) ==
    [k \in DOMAIN drafts |->
        [drafts[k] EXCEPT !.id =
            IF detector = "hostPattern"
            THEN generateAlertId(clock, <<rand, detector, k>>)
            ELSE generateId(clock, <<rand, detector, k>>)]]

\* TargetChangeDetector.detect(newConfig, previousConfig?)
TargetChangeDetect(newConfig, previousConfig, clock, rand) ==
    IF ~previousConfig.given \/ ~previousConfig.hasTargets \/ ~newConfig.hasTargets
    THEN <<>>
    ELSE LET prevTargetsMap == TargetsById(previousConfig.targets)
             newTargetsMap == TargetsById(newConfig.targets)
             fresh == Concat([i \in DOMAIN newTargetsMap |->
                 IF ~MapHas(prevTargetsMap, newTargetsMap[i][1])
                 THEN <<createNewTargetAlert(newTargetsMap[i][2], clock)>>
                 ELSE detectChanges(MapGet(prevTargetsMap, newTargetsMap[i][1]),
                                    newTargetsMap[i][2], clock)])
             removed == Concat([i \in DOMAIN prevTargetsMap |->
                 IF ~MapHas(newTargetsMap, prevTargetsMap[i][1])
                 THEN <<createRemovedTargetAlert(prevTargetsMap[i][2], clock)>>
                 ELSE <<>>])
         IN Identified("targetChange", fresh \o removed, clock, rand)

\* ---- VolumeDetector ----
SIGNIFICANT_INCREASE_THRESHOLD == 50
LARGE_INCREASE_THRESHOLD == 100
MIN_TARGETS_FOR_ALERT == 5
ABSOLUTE_HIGH_THRESHOLD == 100

calculateMetrics(config) ==
    IF ~config.hasTargets
    THEN [totalTargets |-> 0, uniqueHosts |-> <<>>, uniqueIPs |-> <<>>]
    ELSE [totalTargets |-> Len(config.targets),
          uniqueHosts |-> DistinctInOrder([i \in DOMAIN config.targets |->
                                              config.targets[i].host]),
          uniqueIPs |-> DistinctInOrder([i \in DOMAIN config.targets |->
                                            config.targets[i].ip])]

\* x >= k for a JavaScript number x and an integer k (false for NaN)
AtLeast(x, k) == x.kind = "number" /\ x.num >= k * x.den

calculatePercentageIncreaseOfCurrent(previous, current) ==
    IF previous = 0 \/ current = 0 THEN Number(0, 1)
    ELSE Number((current - previous) * 100, current)

\* ((current - previous) / previous) * 100
calculatePercentageIncrease(previous, current) ==
    IF previous = 0 THEN Number(0, 1)
    ELSE Number((current - previous) * 100, previous)

createVolumeAlert(type, severity, context, clock) ==
    createAlert(type, "VOLUME", severity, context, clock)

IncreaseContext(old, new, threshold) ==
    [oldValue |-> old, newValue |-> new, threshold |-> threshold]

detectVolumeChanges(previous, current, clock) ==
    LET targetIncrease == calculatePercentageIncrease(previous.totalTargets,
                                                      current.totalTargets)
        previousHosts == Len(previous.uniqueHosts)
        currentHosts == Len(current.uniqueHosts)
        hostIncrease == calculatePercentageIncrease(previousHosts, currentHosts)
        previousIPs == Len(previous.uniqueIPs)
        currentIPs == Len(current.uniqueIPs)
        ipIncrease == calculatePercentageIncrease(previousIPs, currentIPs)
    IN (IF previous.totalTargets < MIN_TARGETS_FOR_ALERT THEN <<>>
        ELSE IF AtLeast(targetIncrease, LARGE_INCREASE_THRESHOLD)
        THEN <<createVolumeAlert("TARGET_VOLUME_INCREASE", "HIGH",
                  IncreaseContext(previous.totalTargets, current.totalTargets,
                                  LARGE_INCREASE_THRESHOLD), clock)>>
        ELSE IF AtLeast(targetIncrease, SIGNIFICANT_INCREASE_THRESHOLD)
        THEN <<createVolumeAlert("TARGET_VOLUME_INCREASE", "MEDIUM",
                  IncreaseContext(previous.totalTargets, current.totalTargets,
                                  SIGNIFICANT_INCREASE_THRESHOLD), clock)>>
        ELSE <<>>)
       \o (IF previousHosts >= MIN_TARGETS_FOR_ALERT
              /\ AtLeast(hostIncrease, SIGNIFICANT_INCREASE_THRESHOLD)
           THEN <<createVolumeAlert("UNIQUE_HOSTS_INCREASE", "HIGH",
                     IncreaseContext(previousHosts, currentHosts,
                                     SIGNIFICANT_INCREASE_THRESHOLD), clock)>>
           ELSE <<>>)
       \o (IF previousIPs >= MIN_TARGETS_FOR_ALERT
              /\ AtLeast(ipIncrease, SIGNIFICANT_INCREASE_THRESHOLD)
           THEN <<createVolumeAlert("UNIQUE_IPS_INCREASE", "HIGH",
                     IncreaseContext(previousIPs, currentIPs,
                                     SIGNIFICANT_INCREASE_THRESHOLD), clock)>>
           ELSE <<>>)

checkAbsoluteVolumesInclusive(metrics, clock) ==
    IF metrics.totalTargets >= ABSOLUTE_HIGH_THRESHOLD
    THEN <<createVolumeAlert("TARGET_VOLUME_INCREASE", "MEDIUM",
              [currentValue |-> metrics.totalTargets,
               threshold |-> ABSOLUTE_HIGH_THRESHOLD], clock)>>
    ELSE <<>>

checkAbsoluteVolumes(metrics, clock) ==
    IF metrics.totalTargets > ABSOLUTE_HIGH_THRESHOLD
    THEN <<createVolumeAlert("TARGET_VOLUME_INCREASE", "MEDIUM",
              [currentValue |-> metrics.totalTargets,
               threshold |-> ABSOLUTE_HIGH_THRESHOLD], clock)>>
    ELSE <<>>

\* VolumeDetector.detect(newConfig, previousConfig?)
VolumeDetect(newConfig, previousConfig, clock, rand) ==
    IF ~newConfig.hasTargets THEN <<>>
    ELSE IF ~previousConfig.given \/ ~previousConfig.hasTargets
    THEN Identified("volume",
                    checkAbsoluteVolumes(calculateMetrics(newConfig), clock),
                    clock, rand)
    ELSE Identified("volume",
                    detectVolumeChanges(calculateMetrics(previousConfig),
                                        calculateMetrics(newConfig), clock),
                    clock, rand)

\* ---- TLDDetector ----
SIGNIFICANT_TLD_INCREASE == 50
HIGH_RISK_TLDS ==
    { <<Dot, "g", "o", "v">>, <<Dot, "m", "i", "l">>, <<Dot, "e", "d", "u">>,
      <<Dot, "b", "a", "n", "k">>, <<Dot, "f", "i", "n">>,
      <<Dot, "e", "m", "e", "r", "g", "e", "n", "c", "y">> }

\* tldCounts and tldHosts after the forEach over config.targets
calculateTLDMetrics(config) ==
    IF ~config.hasTargets THEN [tldCounts |-> <<>>, tldHosts |-> <<>>]
    ELSE LET tlds == [i \in DOMAIN config.targets |->
                         DetectorExtractTLD(config.targets[i].host)]
             keys == DistinctInOrder(tlds)
         IN [tldCounts |-> [k \in DOMAIN keys |->
                <<keys[k], Cardinality({i \in DOMAIN tlds : tlds[i] = keys[k]})>>],
             tldHosts |-> [k \in DOMAIN keys |->
                <<keys[k],
                  DistinctInOrder(
                     LET of == SelectSeq(config.targets,
                            LAMBDA t : DetectorExtractTLD(t.host) = keys[k])
                     IN [i \in DOMAIN of |-> of[i].host])>>]]

createTLDAlert(type, severity, context, clock) ==
    createAlert(type, "TLD", severity, context, clock)

TLDPercentageIncrease(previous, current) ==
    IF previous = 0 THEN Number(0, 1)
    ELSE Number((current - previous) * 100, previous)

RiskSeverity(tld) == IF tld \in HIGH_RISK_TLDS THEN "HIGH" ELSE "MEDIUM"

detectTLDChanges(previous, current, clock) ==
    Concat([i \in DOMAIN current.tldCounts |->
        LET tld == current.tldCounts[i][1]
            count == current.tldCounts[i][2]
            hosts == MapGetOr(current.tldHosts, tld, <<>>)
            previousCount == MapGetOr(previous.tldCounts, tld, 0)
        IN IF ~MapHas(previous.tldCounts, tld)
           THEN <<createTLDAlert("NEW_TLD", RiskSeverity(tld),
                     [tld |-> tld, currentValue |-> count,
                      metadata |-> [hosts |-> hosts]], clock)>>
           ELSE IF AtLeast(TLDPercentageIncrease(previousCount, count),
                           SIGNIFICANT_TLD_INCREASE)
           THEN <<createTLDAlert("TLD_VOLUME_INCREASE", RiskSeverity(tld),
                     [tld |-> tld, oldValue |-> previousCount, newValue |-> count,
                      threshold |-> SIGNIFICANT_TLD_INCREASE,
                      metadata |-> [hosts |-> hosts]], clock)>>
           ELSE <<>>])

detectHighRiskTLDs(metrics, clock) ==
    Concat([i \in DOMAIN metrics.tldCounts |->
        IF metrics.tldCounts[i][1] \in HIGH_RISK_TLDS
        THEN <<createTLDAlert("TLD_VOLUME_INCREASE", "HIGH",
                  [tld |-> metrics.tldCounts[i][1],
                   currentValue |-> metrics.tldCounts[i][2],
                   metadata |-> [hosts |-> MapGetOr(metrics.tldHosts,
                                     metrics.tldCounts[i][1], <<>>)]], clock)>>
        ELSE <<>>])

\* A target whose JSON object had no "host": target.host is undefined, and
\* extractTLD raises a TypeError at host.split('.').
Undefined == <<"undefined">>
extractTLDRaises(host) == host = Undefined

\* does detect() raise: calculateTLDMetrics runs over newConfig.targets, then
\* over previousConfig.targets
TLDDetectRaises(newConfig, previousConfig) ==
    /\ newConfig.hasTargets
    /\ \/ \E i \in DOMAIN newConfig.targets : extractTLDRaises(newConfig.targets[i].host)
       \/ /\ previousConfig.given
          /\ previousConfig.hasTargets
          /\ \E i \in DOMAIN previousConfig.targets :
                extractTLDRaises(previousConfig.targets[i].host)

\* TLDDetector.detect(newConfig, previousConfig?)
TLDDetect(newConfig, previousConfig, clock, rand) ==
    IF ~newConfig.hasTargets THEN <<>>
    ELSE LET currentMetrics == calculateTLDMetrics(newConfig)
             changes == IF previousConfig.given /\ previousConfig.hasTargets
                        THEN detectTLDChanges(calculateTLDMetrics(previousConfig),
                                              currentMetrics, clock)
                        ELSE <<>>
         IN Identified("tld", changes \o detectHighRiskTLDs(currentMetrics, clock),
                       clock, rand)

\* ---- HostPatternDetector ----
\* hostMap after the loop: host -> targets (target ids in order) and ips (Set)
HostMapOf(targets) ==
    LET hosts == DistinctInOrder([i \in DOMAIN targets |-> targets[i].host]) IN
    [k \in DOMAIN hosts |->
        LET of == SelectSeq(targets, LAMBDA t : t.host = hosts[k]) IN
        <<hosts[k], [targets |-> [i \in DOMAIN of |-> of[i].target_id],
                     ips |-> DistinctInOrder([i \in DOMAIN of |-> of[i].ip])]>>]

\* ipMap after the loop: ip -> hosts (Set) and targets
IPMapOf(targets) ==
    LET ips == DistinctInOrder([i \in DOMAIN targets |-> targets[i].ip]) IN
    [k \in DOMAIN ips |->
        LET of == SelectSeq(targets, LAMBDA t : t.ip = ips[k]) IN
        <<ips[k], [hosts |-> DistinctInOrder([i \in DOMAIN of |-> of[i].host]),
                   targets |-> [i \in DOMAIN of |-> of[i].target_id]]>>]

detectMultipleTargetsPerHost(hostMap, clock) ==
    Concat([k \in DOMAIN hostMap |->
        LET host == hostMap[k][1]
            data == hostMap[k][2]
        IN (IF Len(data.targets) > 1
            THEN <<createAlert("MULTIPLE_TARGETS_HOST", "HOST_PATTERN",
                      IF Len(data.targets) > 3 THEN "HIGH" ELSE "MEDIUM",
                      [host |-> host, currentValue |-> Len(data.targets),
                       metadata |-> [targetIds |-> data.targets,
                                     uniqueIPs |-> data.ips]], clock)>>
            ELSE <<>>)
           \o (IF Len(data.ips) > 1
               THEN <<createAlert("HOST_IP_CHANGE", "HOST_PATTERN", "HIGH",
                         [host |-> host, currentValue |-> Len(data.ips),
                          metadata |-> [ips |-> data.ips]], clock)>>
               ELSE <<>>)])

detectMultipleHostsPerIP(ipMap, clock) ==
    Concat([k \in DOMAIN ipMap |->
        LET ip == ipMap[k][1]
            data == ipMap[k][2]
        IN IF Len(data.hosts) > 1
           THEN <<createAlert("MULTIPLE_HOSTS_IP", "HOST_PATTERN",
                     IF Len(data.hosts) > 3 THEN "HIGH" ELSE "MEDIUM",
                     [ip |-> ip, currentValue |-> Len(data.hosts),
                      metadata |-> [hosts |-> data.hosts,
                                    targetIds |-> data.targets]], clock)>>
           ELSE <<>>])

\* HostPatternDetector.detect(config)
HostPatternDetect(config, clock, rand) ==
    IF ~config.hasTargets THEN <<>>
    ELSE Identified("hostPattern",
                    detectMultipleTargetsPerHost(HostMapOf(config.targets), clock)
                    \o detectMultipleHostsPerIP(IPMapOf(config.targets), clock),
                    clock, rand)

(***************************************************************************)
(* The detectors on one pair of snapshots                                  *)
(***************************************************************************)
AgencyGov == <<"a", "g", "e", "n", "c", "y", Dot, "g", "o", "v">>
BareGov == <<"g", "o", "v">>

\* T1 in every configuration, a target under agency.gov, a target under gov
T1Variants ==
    {[target_id |-> "T1", host |-> HostA, ip |-> "ip1", type |-> ty,
      method |-> m, port |-> po, use_ssl |-> ssl, path |-> pa] :
        ty \in {"http", "tcp"}, m \in {"GET", "POST"}, po \in {80, 443},
        ssl \in BOOLEAN, pa \in {"/", "/x"}}
T1Base == [target_id |-> "T1", host |-> HostA, ip |-> "ip1", type |-> "http",
           method |-> "GET", port |-> 80, use_ssl |-> FALSE, path |-> "/"]
T1Alt == [target_id |-> "T1", host |-> HostA, ip |-> "ip1", type |-> "tcp",
          method |-> "POST", port |-> 443, use_ssl |-> TRUE, path |-> "/x"]
T2Gov == [target_id |-> "T2", host |-> AgencyGov, ip |-> "ip2", type |-> "http",
          method |-> "GET", port |-> 443, use_ssl |-> TRUE, path |-> "/"]
T3Gov == [target_id |-> "T3", host |-> BareGov, ip |-> "ip1", type |-> "http",
          method |-> "GET", port |-> 80, use_ssl |-> FALSE, path |-> "/"]

UniqueIdLists(pool, n) ==
    {s \in UNION {[1..k -> pool] : k \in 0..n} :
        \A i, j \in DOMAIN s : i # j => s[i].target_id # s[j].target_id}

ConfigOf(targets) == [hasTargets |-> TRUE, targets |-> targets, hasRandoms |-> TRUE]
NoTargetsConfig == [hasTargets |-> FALSE, targets |-> <<>>, hasRandoms |-> TRUE]
\* previousConfig is optional
Previous(config) ==
    [given |-> TRUE, hasTargets |-> config.hasTargets, targets |-> config.targets,
     hasRandoms |-> config.hasRandoms]
NoPrevious == [given |-> FALSE]

DetectCurrent ==
    {ConfigOf(s) : s \in UniqueIdLists(T1Variants \cup {T2Gov, T3Gov},
                                       MaxDetectTargets)}
    \cup {NoTargetsConfig}
DetectPrevious ==
    {Previous(ConfigOf(s)) : s \in UniqueIdLists({T1Base, T1Alt, T2Gov},
                                                 MaxDetectTargets)}
    \cup {Previous(NoTargetsConfig), NoPrevious}

InitDetect ==
    /\ InitCommon
    /\ tldHost = <<>>
    /\ series = <<>> /\ tlIn = <<>>
    /\ detIn \in {[given |-> TRUE, new |-> c, prev |-> p] :
                     c \in DetectCurrent, p \in DetectPrevious}

DetectOther ==
    <<storeVars, statsVars, returned, now, dateParserAccepts, lastCall, ingestedOk,
      accepted, calls, statCalls, ticks, phase, lastArgs, statsOnce, tldVars,
      timelineVars, detIn, alertVars, lastVars>>

DetectTargetChanges ==
    /\ ~detOut.targetChange.done
    /\ detOut' = [detOut EXCEPT !.targetChange =
                     [done |-> TRUE,
                      alerts |-> TargetChangeDetect(detIn.new, detIn.prev, now, 0)]]
    /\ UNCHANGED DetectOther

DetectHostPatterns ==
    /\ ~detOut.hostPattern.done
    /\ detOut' = [detOut EXCEPT !.hostPattern =
                     [done |-> TRUE,
                      alerts |-> HostPatternDetect(detIn.new, now, 0)]]
    /\ UNCHANGED DetectOther

DetectTLDs ==
    /\ ~detOut.tld.done
    /\ detOut' = [detOut EXCEPT !.tld =
                     [done |-> TRUE,
                      alerts |-> TLDDetect(detIn.new, detIn.prev, now, 0)]]
    /\ UNCHANGED DetectOther

NextDetect == DetectTargetChanges \/ DetectHostPatterns \/ DetectTLDs

SpecDetect == InitDetect /\ [][NextDetect]_vars

(***************************************************************************)
(* The volume detector on snapshots of up to MaxCurTotal targets           *)
(***************************************************************************)
\* n targets, either all under one host and IP or each under its own
VolumeTargets(n, distinct) ==
    [i \in 1..n |->
        [target_id |-> ToString(i),
         host |-> IF distinct THEN <<"h", ToString(i)>> ELSE HostA,
         ip |-> IF distinct THEN ToString(i) ELSE "ip1",
         type |-> "http", method |-> "GET", port |-> 80, use_ssl |-> FALSE,
         path |-> "/"]]

VolumeCurrent ==
    {ConfigOf(VolumeTargets(n, d)) : n \in 0..MaxCurTotal, d \in BOOLEAN}
    \cup {NoTargetsConfig}
VolumePrevious ==
    {Previous(ConfigOf(VolumeTargets(n, d))) : n \in 0..MaxPrevTotal, d \in BOOLEAN}
    \cup {Previous(NoTargetsConfig), NoPrevious}

InitVolume ==
    /\ InitCommon
    /\ tldHost = <<>>
    /\ series = <<>> /\ tlIn = <<>>
    /\ detIn \in {[given |-> TRUE, new |-> c, prev |-> p] :
                     c \in VolumeCurrent, p \in VolumePrevious}

DetectVolume ==
    /\ ~detOut.volume.done
    /\ detOut' = [detOut EXCEPT !.volume =
                     [done |-> TRUE,
                      alerts |-> VolumeDetect(detIn.new, detIn.prev, now, 0)]]
    /\ UNCHANGED DetectOther

NextVolume == DetectVolume

SpecVolume == InitVolume /\ [][NextVolume]_vars

(***************************************************************************)
(* AlertService                                                            *)
(*                                                                         *)
(* processConfiguration is an async function: it runs up to each of its    *)
(* four awaits in one step (the detector called there has no await of its  *)
(* own), and other calls, clearAlerts() and the clock may come in between. *)
(***************************************************************************)
CollectAlertsTLDFirst(targetChange, hostPattern, volume, tld) ==
    tld \o targetChange \o hostPattern \o volume

\* newAlerts.push(...targetChange, ...hostPattern, ...volume, ...tld)
CollectAlerts(targetChange, hostPattern, volume, tld) ==
    targetChange \o hostPattern \o volume \o tld

\* this.alerts.push(...newAlerts)
StoreAlerts(log, newAlerts) == log \o newAlerts

\* clearAlerts(before?)
clearAlerts(log, before) ==
    IF before.given THEN SelectSeq(log, LAMBDA alert : alert.timestamp > before.time)
    ELSE <<>>

\* the snapshot pairs handed to processConfiguration
AlertInputs ==
    { [new |-> ConfigOf(<<T1Alt, T3Gov>>), prev |-> Previous(ConfigOf(<<T1Base>>))],
      [new |-> ConfigOf(VolumeTargets(MIN_TARGETS_FOR_ALERT + 3, FALSE)),
       prev |-> Previous(ConfigOf(VolumeTargets(MIN_TARGETS_FOR_ALERT, FALSE)))] }

AlertOther ==
    <<storeVars, statsVars, returned, dateParserAccepts, lastCall, ingestedOk,
      accepted, calls, statCalls, phase, lastArgs, statsOnce, tldVars,
      timelineVars, detVars, lastVars>>

\* the call is made: it runs the target-change detector and awaits
ProcessStartWith(c, inputs) ==
    /\ inflight[c].pc = "idle"
    /\ \A b \in 1..(c - 1) : inflight[b].pc # "idle"
    /\ \E in \in inputs :
          inflight' = [inflight EXCEPT ![c] =
              [pc |-> "targetChange", new |-> in.new, prev |-> in.prev,
               targetChange |-> TargetChangeDetect(in.new, in.prev, now, c),
               overlaps |-> \E b \in 1..MaxAlertCalls :
                               inflight[b].pc \notin {"idle", "done", "threw"}]]
    /\ UNCHANGED <<alerts, alertOp, clears, now, ticks, AlertOther>>

ProcessStart(c) == ProcessStartWith(c, AlertInputs)

\* resumed after the first await: the host-pattern detector, and await
ProcessHostPattern(c) ==
    /\ inflight[c].pc = "targetChange"
    /\ inflight' = [inflight EXCEPT ![c] =
          [pc |-> "hostPattern", new |-> inflight[c].new, prev |-> inflight[c].prev,
           targetChange |-> inflight[c].targetChange,
           hostPattern |-> HostPatternDetect(inflight[c].new, now, c),
           overlaps |-> inflight[c].overlaps]]
    /\ UNCHANGED <<alerts, alertOp, clears, now, ticks, AlertOther>>

ProcessVolume(c) ==
    /\ inflight[c].pc = "hostPattern"
    /\ inflight' = [inflight EXCEPT ![c] =
          [pc |-> "volume", new |-> inflight[c].new, prev |-> inflight[c].prev,
           targetChange |-> inflight[c].targetChange,
           hostPattern |-> inflight[c].hostPattern,
           volume |-> VolumeDetect(inflight[c].new, inflight[c].prev, now, c),
           overlaps |-> inflight[c].overlaps]]
    /\ UNCHANGED <<alerts, alertOp, clears, now, ticks, AlertOther>>

\* resumed after the third await: the TLD detector; when it raises, the
\* exception leaves processConfiguration, which has no try: the call is
\* rejected with newAlerts never filled
ProcessTLD(c) ==
    /\ inflight[c].pc = "volume"
    /\ inflight' = [inflight EXCEPT ![c] =
          IF TLDDetectRaises(inflight[c].new, inflight[c].prev)
          THEN [pc |-> "threw", new |-> inflight[c].new, prev |-> inflight[c].prev,
                targetChange |-> inflight[c].targetChange,
                hostPattern |-> inflight[c].hostPattern,
                volume |-> inflight[c].volume,
                overlaps |-> inflight[c].overlaps]
          ELSE [pc |-> "tld", new |-> inflight[c].new, prev |-> inflight[c].prev,
                targetChange |-> inflight[c].targetChange,
                hostPattern |-> inflight[c].hostPattern,
                volume |-> inflight[c].volume,
                tld |-> TLDDetect(inflight[c].new, inflight[c].prev, now, c),
                overlaps |-> inflight[c].overlaps]]
    /\ UNCHANGED <<alerts, alertOp, clears, now, ticks, AlertOther>>

\* resumed after the last await: collect, store, return
ProcessReturn(c) ==
    /\ inflight[c].pc = "tld"
    /\ LET newAlerts == CollectAlerts(inflight[c].targetChange,
                                      inflight[c].hostPattern,
                                      inflight[c].volume, inflight[c].tld)
       IN /\ alerts' = StoreAlerts(alerts, newAlerts)
          /\ inflight' = [inflight EXCEPT ![c] =
                [pc |-> "done", new |-> inflight[c].new, prev |-> inflight[c].prev,
                 returned |-> newAlerts, overlaps |-> inflight[c].overlaps]]
    /\ UNCHANGED <<alertOp, clears, now, ticks, AlertOther>>

ProcessConfiguration ==
    \E c \in 1..MaxAlertCalls :
       \/ ProcessStart(c)
       \/ ProcessHostPattern(c)
       \/ ProcessVolume(c)
       \/ ProcessTLD(c)
       \/ ProcessReturn(c)

ClearAlerts ==
    /\ clears < MaxClears
    /\ \E before \in {NoDate} \cup {[given |-> TRUE, time |-> d] :
                                       d \in 0..MaxAlertTicks} :
          /\ alerts' = clearAlerts(alerts, before)
          /\ alertOp' = before
    /\ clears' = clears + 1
    /\ UNCHANGED <<inflight, now, ticks, AlertOther>>

AlertTick ==
    /\ ticks < MaxAlertTicks
    /\ now' = now + 1
    /\ ticks' = ticks + 1
    /\ UNCHANGED <<alertVars, AlertOther>>

\* the alert service parses no dates
InitAlerts == Init /\ dateParserAccepts

\* overlapping processConfiguration() calls
NextAlerts == ProcessConfiguration \/ AlertTick

SpecAlerts == InitAlerts /\ [][NextAlerts]_vars

\* processConfiguration() calls one after the other, and clearAlerts()
SequentialProcess ==
    \E c \in 1..MaxAlertCalls :
       /\ \A b \in 1..MaxAlertCalls :
             b # c => inflight[b].pc \in {"idle", "done", "threw"}
       /\ \/ ProcessStart(c)
          \/ ProcessHostPattern(c)
          \/ ProcessVolume(c)
          \/ ProcessTLD(c)
          \/ ProcessReturn(c)

NextPrune == SequentialProcess \/ ClearAlerts \/ AlertTick

SpecPrune == InitAlerts /\ [][NextPrune]_vars

\* processConfiguration() on snapshots that came out of JSON.parse unchecked:
\* a target may lack its host
THostless == [target_id |-> "T4", host |-> Undefined, ip |-> "ip2", type |-> "http",
              method |-> "GET", port |-> 80, use_ssl |-> FALSE, path |-> "/"]
UncheckedInputs ==
    {[new |-> ConfigOf(s), prev |-> p] :
        s \in UniqueIdLists({T1Base, T1Alt, T3Gov, THostless}, MaxDetectTargets),
        p \in {Previous(ConfigOf(<<T1Base>>)), NoPrevious}}

ProcessUnchecked ==
    \E c \in 1..MaxAlertCalls :
       /\ \A b \in 1..MaxAlertCalls :
             b # c => inflight[b].pc \in {"idle", "done", "threw"}
       /\ \/ ProcessStartWith(c, UncheckedInputs)
          \/ ProcessHostPattern(c)
          \/ ProcessVolume(c)
          \/ ProcessTLD(c)
          \/ ProcessReturn(c)

NextUnchecked == ProcessUnchecked \/ AlertTick

SpecUnchecked == InitAlerts /\ [][NextUnchecked]_vars

(***************************************************************************)
(* TimelineServiceMath                                                     *)
(***************************************************************************)
\* JavaScript number arithmetic on exact fractions. NaN is contagious; an
\* infinity is taken as positive (none arises for data points at distinct
\* timestamps, where only 0 / 0 divides by zero).
Whole(n) == Number(n, 1)
Fraction(n, d) == IF d < 0 THEN Number(-n, -d) ELSE Number(n, d)

NonFinite(a, b) == IF a.kind = "NaN" \/ b.kind = "NaN" THEN NaN ELSE Infinity

NumAdd(a, b) ==
    IF a.kind = "number" /\ b.kind = "number"
    THEN Fraction(a.num * b.den + b.num * a.den, a.den * b.den)
    ELSE NonFinite(a, b)

NumSub(a, b) ==
    IF a.kind = "number" /\ b.kind = "number"
    THEN Fraction(a.num * b.den - b.num * a.den, a.den * b.den)
    ELSE NonFinite(a, b)

NumMul(a, b) ==
    IF a.kind = "number" /\ b.kind = "number"
    THEN Fraction(a.num * b.num, a.den * b.den)
    ELSE NonFinite(a, b)

\* a / b: 0 / 0 is NaN, x / 0 an infinity
NumDiv(a, b) ==
    IF a.kind = "number" /\ b.kind = "number"
    THEN IF b.num = 0 THEN (IF a.num = 0 THEN NaN ELSE Infinity)
         ELSE Fraction(a.num * b.den, a.den * b.num)
    ELSE NonFinite(a, b)

\* Math.abs
NumAbs(a) == IF a.kind = "number" /\ a.num < 0 THEN Fraction(-a.num, a.den) ELSE a

\* a < b: false when either side is NaN
NumLess(a, b) ==
    IF a.kind = "number" /\ b.kind = "number" THEN a.num * b.den < b.num * a.den
    ELSE a.kind = "number" /\ b.kind = "Infinity"

\* values.reduce((sum, v) => sum + v, 0)
RECURSIVE NumSum(_)
NumSum(s) == IF s = <<>> THEN Whole(0) ELSE NumAdd(NumSum(SubSeq(s, 1, Len(s) - 1)), s[Len(s)])

\* A DataPoint holds its timestamp in whole hours; getTime() is
\* hour * MS_PER_HOUR milliseconds.
MS_PER_HOUR == 1000 * 3600
THRESHOLD == Number(1, 10)

xValuesOf(dataPoints) == [i \in DOMAIN dataPoints |-> Whole(dataPoints[i].hour)]
yValuesOf(dataPoints) == [i \in DOMAIN dataPoints |-> Whole(dataPoints[i].value)]
MeanOf(values) == NumDiv(NumSum(values), Whole(Len(values)))

\* sum (x - xMean)(y - yMean) / sum (x - xMean)^2 over x = getTime(): the sums
\* are taken over the hours, where the quotient is MS_PER_HOUR times that over
\* the milliseconds, and the quotient is then divided by MS_PER_HOUR.
SlopePerHour(dataPoints) ==
    LET x == xValuesOf(dataPoints)
        y == yValuesOf(dataPoints)
        xMean == MeanOf(x)
        yMean == MeanOf(y)
    IN NumDiv(NumSum([i \in DOMAIN x |->
                        NumMul(NumSub(x[i], xMean), NumSub(y[i], yMean))]),
              NumSum([i \in DOMAIN x |->
                        NumMul(NumSub(x[i], xMean), NumSub(x[i], xMean))]))

Slope(dataPoints) == NumDiv(SlopePerHour(dataPoints), Whole(MS_PER_HOUR))

\* slope * x + intercept with intercept = yMean - slope * xMean; slope * x over
\* the milliseconds is SlopePerHour * hour.
getLinearPredictions(dataPoints) ==
    LET x == xValuesOf(dataPoints)
        slope == SlopePerHour(dataPoints)
        intercept == NumSub(MeanOf(yValuesOf(dataPoints)), NumMul(slope, MeanOf(x)))
    IN [i \in DOMAIN x |-> NumAdd(NumMul(slope, x[i]), intercept)]

calculateTrend(dataPoints) ==
    IF Len(dataPoints) < 2 THEN "stable"
    ELSE IF NumLess(NumAbs(Slope(dataPoints)), THRESHOLD) THEN "stable"
    ELSE IF NumLess(Whole(0), Slope(dataPoints)) THEN "increasing"
    ELSE "decreasing"

calculateChangeRate(dataPoints) ==
    IF Len(dataPoints) < 2 THEN Whole(0)
    ELSE LET first == dataPoints[1]
             last == dataPoints[Len(dataPoints)]
             timeDiff == NumDiv(Whole((last.hour - first.hour) * MS_PER_HOUR),
                                Whole(1000 * 3600))
             valueDiff == Whole(last.value - first.value)
         IN NumDiv(valueDiff, timeDiff)

calculateConfidence(dataPoints) ==
    IF Len(dataPoints) < 3 THEN Whole(0)
    ELSE LET y == yValuesOf(dataPoints)
             yMean == MeanOf(y)
             tss == NumSum([i \in DOMAIN y |->
                              NumMul(NumSub(y[i], yMean), NumSub(y[i], yMean))])
             predictions == getLinearPredictions(dataPoints)
             rss == NumSum([i \in DOMAIN y |->
                              NumMul(NumSub(y[i], predictions[i]),
                                     NumSub(y[i], predictions[i]))])
         IN NumSub(Whole(1), NumDiv(rss, tss))

\* Series under test: data points at distinct, increasing whole hours.
HourLists ==
    {h \in UNION {[1..n -> 0..MaxHour] : n \in 0..MaxPoints} :
        \A i \in DOMAIN h : i > 1 => h[i - 1] < h[i]}

SeriesOver(hours, base, perHour) ==
    [i \in DOMAIN hours |-> [hour |-> hours[i], value |-> base + perHour * hours[i]]]

\* rising by 2 per hour from 10; constant at 0 or 5; and two points MS_PER_HOUR
\* / 10 per hour apart, the slope at which THRESHOLD is met
TrendSeries ==
    {SeriesOver(h, 10, 2) : h \in {g \in HourLists : Len(g) >= 3}}
    \cup {SeriesOver(h, c, 0) : h \in HourLists, c \in {0, 5}}
    \cup {SeriesOver(h, 0, k * (MS_PER_HOUR \div 10)) :
             h \in {g \in HourLists : Len(g) = 2}, k \in {-1, 1}}

InitTrend == InitCommon /\ tldHost = <<>> /\ detIn = NoDetIn /\ series \in TrendSeries
             /\ tlIn = <<>>

TrendOther ==
    <<storeVars, statsVars, returned, now, dateParserAccepts, lastCall, ingestedOk,
      accepted, calls, statCalls, ticks, phase, lastArgs, statsOnce, tldVars,
      timelineVars, detVars, alertVars, series, monitorVars, readerVars,
      bucketVars>>

CalculateTrend ==
    /\ ~trendOut.trend.done
    /\ trendOut' = [trendOut EXCEPT
                      !.trend = [done |-> TRUE, value |-> calculateTrend(series)]]
    /\ UNCHANGED TrendOther

CalculateChangeRate ==
    /\ ~trendOut.changeRate.done
    /\ trendOut' = [trendOut EXCEPT
                      !.changeRate = [done |-> TRUE,
                                      value |-> calculateChangeRate(series)]]
    /\ UNCHANGED TrendOther

CalculateConfidence ==
    /\ ~trendOut.confidence.done
    /\ trendOut' = [trendOut EXCEPT
                      !.confidence = [done |-> TRUE,
                                      value |-> calculateConfidence(series)]]
    /\ UNCHANGED TrendOther

NextTrend == CalculateTrend \/ CalculateChangeRate \/ CalculateConfidence

SpecTrend == InitTrend /\ [][NextTrend]_vars

(***************************************************************************)
(* MonitoringService, DirectoryParserService, FileDownloadService          *)
(***************************************************************************)
PEAK_INTERVAL == 30 * 60 * 1000
REGULAR_INTERVAL == 3 * 60 * 60 * 1000

\* (hour >= 6 && hour <= 8) || (hour >= 12 && hour <= 13)
isPeakHour(hour) == (hour >= 6 /\ hour <= 8) \/ (hour >= 12 /\ hour <= 13)

\* What new Date() tells a call: the hour of the day and, where lastFetch is
\* set, the milliseconds since it.
ClockReadings == [hour : 0..23, sinceFetch : {0, PEAK_INTERVAL, REGULAR_INTERVAL}]

shouldFetch(fetched, clock) ==
    IF ~fetched.given THEN TRUE
    ELSE IF isPeakHour(clock.hour) THEN clock.sinceFetch >= PEAK_INTERVAL
    ELSE clock.sinceFetch >= REGULAR_INTERVAL

\* what shouldFetch() can answer, over the readings of the clock
ShouldFetchAnswers(fetched) == {shouldFetch(fetched, clock) : clock \in ClockReadings}

\* A directory listing as fetchDirectoryListing returns it: the entries whose
\* file name carries a stamp, newest first; or the fetch failed.
FileEntryOf(t) == [filename |-> <<Stamp(t), Text>>, timestamp |-> t]
DirectoryListings ==
    {[i \in DOMAIN s |-> FileEntryOf(s[i])] :
        s \in {q \in UNION {[1..n -> 1..MaxFiles] : n \in 0..MaxFiles} :
                  \A i \in DOMAIN q : i > 1 => q[i - 1] > q[i]}}
FetchResults ==
    {[ok |-> TRUE, entries |-> e] : e \in DirectoryListings}
    \cup {[ok |-> FALSE, entries |-> <<>>]}

\* result.entries.filter(entry => entry.timestamp > since)
getNewFiles(result, since) ==
    SelectSeq(result.entries, LAMBDA entry : entry.timestamp > since)

\* What downloadFile and JSON.parse make of a file: a configuration, text that
\* is no JSON, or a failed download.
DownloadedConfigs == {d \in WellFormedSnapshots : d.hasTargets /\ Len(d.targets) = 0}
Downloads ==
    {[outcome |-> "content", data |-> d] : d \in DownloadedConfigs}
    \cup {[outcome |-> o, data |-> [hasTargets |-> FALSE, targets |-> <<>>,
                                    hasRandoms |-> FALSE]] :
             o \in {"invalid", "failed"}}

\* The store after processFile: every error is caught and logged.
\* does the try block of processFile end in its catch
processFileFails(st, fileEntry, download) ==
    \/ download.outcome # "content"
    \/ processConfigurationFile(st, fileEntry.filename, download.data).error
          # "none"

processFile(st, fileEntry, download) ==
    IF download.outcome = "content"
    THEN processConfigurationFile(st, fileEntry.filename, download.data).st
    ELSE st

\* One turn of the while loop up to its first await: the loop ends, awaits the
\* directory listing, or awaits the timer of waitNextCheck (30 minutes or 3
\* hours: the delay is not kept, the timer fires when it fires); fetchNow is
\* what shouldFetch() answers. A loop record
\* holds the arguments and locals of the pass: since, the new files of the
\* cycle, those still to process and those handled.
monitoringLoopUnconditional(loop, running, fetchNow, since) ==
    IF fetchNow
    THEN [pc |-> "listing", since |-> since, cycle |-> <<>>, files |-> <<>>,
          handled |-> <<>>]
    ELSE [loop EXCEPT !.pc = "waiting"]

monitoringLoop(loop, running, fetchNow, since) ==
    IF ~running THEN [loop EXCEPT !.pc = "ended"]
    ELSE IF fetchNow
    THEN [pc |-> "listing", since |-> since, cycle |-> <<>>, files |-> <<>>,
          handled |-> <<>>]
    ELSE [loop EXCEPT !.pc = "waiting"]

InPass(loop) == loop.pc \in {"listing", "download"}

MonitorOther ==
    <<statsVars, returned, now, dateParserAccepts, lastCall, ingestedOk, accepted,
      calls, statCalls, ticks, phase, lastArgs, statsOnce, tldVars, timelineVars,
      detVars, alertVars, trendVars, readerVars, bucketVars>>

\* startMonitoring(): returns at once while running; else runs into the loop
StartMonitoring ==
    /\ \E l \in 1..MaxStarts, fetchNow \in ShouldFetchAnswers(lastFetch) :
          /\ loops[l].pc = "none"
          /\ \A k \in 1..(l - 1) : loops[k].pc # "none"
          /\ IF isRunning
             THEN UNCHANGED <<isRunning, lastProcessedTimestamp, loops, audit>>
             ELSE /\ isRunning' = TRUE
                  /\ lastProcessedTimestamp' = getLatestUpdate(CurrentStore)
                  /\ loops' = [loops EXCEPT ![l] =
                                  monitoringLoop(@, TRUE, fetchNow,
                                                 getLatestUpdate(CurrentStore))]
                  /\ audit' = [audit EXCEPT !.excused =
                                  @ \cup {k \in 1..MaxStarts : audit.stopInPass[k] >= 0}]
    /\ UNCHANGED <<storeVars, lastFetch, MonitorOther>>

\* stopMonitoring()
StopMonitoring ==
    /\ isRunning' = FALSE
    /\ audit' = IF isRunning
                THEN [audit EXCEPT !.stopInPass =
                         [l \in 1..MaxStarts |->
                            IF InPass(loops[l]) /\ @[l] < 0
                            THEN Len(loops[l].files) ELSE @[l]]]
                ELSE audit
    /\ UNCHANGED <<storeVars, lastProcessedTimestamp, lastFetch, loops, MonitorOther>>

\* checkForNewFiles resumes with the listing: the first download starts, or,
\* with no new file, the pass is over and the timer is set
ListingSettles(l) ==
    /\ loops[l].pc = "listing"
    /\ \E result \in FetchResults :
          LET newFiles == getNewFiles(result, loops[l].since) IN
          /\ lastFetch' = IF result.ok THEN [given |-> TRUE] ELSE lastFetch
          /\ loops' = [loops EXCEPT ![l] =
                          IF newFiles = <<>>
                          THEN [@ EXCEPT !.pc = "waiting", !.since = 0]
                          ELSE [@ EXCEPT !.pc = "download", !.since = 0,
                                         !.cycle = newFiles, !.files = newFiles]]
    /\ UNCHANGED <<storeVars, isRunning, lastProcessedTimestamp, audit, MonitorOther>>

\* processFile resumes with the download: parse, ingest, then the next file's
\* download or the end of the pass
DownloadSettles(l) ==
    /\ loops[l].pc = "download"
    /\ \E download \in Downloads :
          LET file == Head(loops[l].files)
              rest == Tail(loops[l].files)
          IN /\ SetStore(processFile(CurrentStore, file, download))
             /\ lastProcessedTimestamp' =
                   IF rest = <<>> THEN loops[l].cycle[1].timestamp
                   ELSE lastProcessedTimestamp
             /\ audit' = [audit EXCEPT !.failed =
                             IF processFileFails(CurrentStore, file, download)
                             THEN @ \cup {file.timestamp}
                             ELSE @ \ {file.timestamp}]
             /\ loops' = [loops EXCEPT ![l] =
                             IF rest = <<>>
                             THEN [@ EXCEPT !.pc = "waiting", !.files = rest,
                                            !.handled = Append(@, file.filename)]
                             ELSE [@ EXCEPT !.files = rest,
                                            !.handled = Append(@, file.filename)]]
    /\ UNCHANGED <<isRunning, lastFetch, MonitorOther>>

\* the timer of waitNextCheck fires: back to the top of the loop
TimerFires(l) ==
    /\ loops[l].pc = "waiting"
    /\ \E fetchNow \in ShouldFetchAnswers(lastFetch) :
          loops' = [loops EXCEPT ![l] =
                       monitoringLoop(@, isRunning, fetchNow, lastProcessedTimestamp)]
    /\ UNCHANGED <<storeVars, isRunning, lastProcessedTimestamp, lastFetch, audit,
                   MonitorOther>>

NextMonitor ==
    \/ StartMonitoring
    \/ StopMonitoring
    \/ \E l \in 1..MaxStarts : ListingSettles(l)
    \/ \E l \in 1..MaxStarts : DownloadSettles(l)
    \/ \E l \in 1..MaxStarts : TimerFires(l)

SpecMonitor == Init /\ [][NextMonitor]_vars

\* A fetch settles (with a response or an error) and a timer fires, and the
\* event loop then runs the continuation.
SpecMonitorFair ==
    /\ SpecMonitor
    /\ \A l \in 1..MaxStarts :
          /\ WF_vars(ListingSettles(l))
          /\ WF_vars(DownloadSettles(l))
          /\ WF_vars(TimerFires(l))

(***************************************************************************)
(* TimelineService: buckets, timeline entries and appearances on           *)
(* observations with their own timestamps                                  *)
(***************************************************************************)
\* T1 under another host and address, with the configuration of T1Base
T1Moved == [T1Base EXCEPT !.host = HostB, !.ip = "ip2"]

\* instants on both sides of the grouping threshold
ObservationTimes ==
    {0, TIME_WINDOW_THRESHOLD, TIME_WINDOW_THRESHOLD + 1,
     2 * TIME_WINDOW_THRESHOLD + 2}

Observations ==
    [target : {T1Base, T1Alt, T1Moved, T2Gov}, timestamp : ObservationTimes]

ObservationLists == UNION {[1..n -> Observations] : n \in 0..MaxObservations}

InitBuckets ==
    /\ InitCommon
    /\ tldHost = <<>>
    /\ detIn = NoDetIn
    /\ series = <<>>
    /\ tlIn \in ObservationLists

BucketOther ==
    <<storeVars, statsVars, returned, now, dateParserAccepts, lastCall, ingestedOk,
      accepted, calls, statCalls, ticks, phase, lastArgs, statsOnce, tldVars,
      timelineVars, detVars, alertVars, trendVars, monitorVars, readerVars, tlIn>>

\* what DataService.getTargetHistory("T1") returns when every observation is
\* the entry of one stored snapshot: T1's entries, ascending by timestamp
HistoryOfT1 ==
    LET own == SelectSeq(SortByTimestamp(tlIn),
                         LAMBDA item : item.target.target_id = "T1")
    IN [i \in DOMAIN own |->
          [timestamp |-> own[i].timestamp, config |-> own[i].target]]

\* the snapshot store holds one snapshot per timestamp
OneEntryPerTimestamp(history) ==
    \A i, j \in DOMAIN history :
        i # j => history[i].timestamp # history[j].timestamp

GroupTargets ==
    /\ ~tlOut.groups.done
    /\ tlOut' = [tlOut EXCEPT !.groups =
                    [done |-> TRUE, value |-> groupTargetsByTimestamp(tlIn)]]
    /\ UNCHANGED BucketOther

\* getTimeline, lines 70-71
CreateTimelineEntries ==
    /\ ~tlOut.entries.done
    /\ tlOut' = [tlOut EXCEPT !.entries =
                    [done |-> TRUE,
                     value |-> createTimelineEntries(
                                   groupTargetsByTimestamp(tlIn))]]
    /\ UNCHANGED BucketOther

\* getTargetHistory, lines 85-87
ProcessTargetHistory ==
    /\ ~tlOut.history.done
    /\ HistoryOfT1 # <<>>
    /\ OneEntryPerTimestamp(HistoryOfT1)
    /\ tlOut' = [tlOut EXCEPT !.history =
                    [done |-> TRUE, value |-> processTargetHistory(HistoryOfT1)]]
    /\ UNCHANGED BucketOther

NextBuckets == GroupTargets \/ CreateTimelineEntries \/ ProcessTargetHistory

SpecBuckets == InitBuckets /\ [][NextBuckets]_vars

(***************************************************************************)
(* Reads interleaved with an ingest call                                   *)
(*                                                                         *)
(* processConfigurationFile is an async function without an await in its   *)
(* body: the call runs the whole body before it hands back its promise,    *)
(* and the awaiting caller (MonitoringService.processFile) resumes in a    *)
(* later turn of the event loop.  Other callbacks (the reads) run between  *)
(* the call and the caller's resumption.  getStatistics() reads the        *)
(* indices (getAllTargets) before its first await gives up control.  The   *)
(* store reads are taken while a call is in flight; getStatistics() runs   *)
(* at any time, so that its cache may hold older statistics.               *)
(***************************************************************************)
\* The call as an ingest that gave up control after its first target would
\* leave the store.
processConfigurationFileYielding(st, filename, data) ==
    processConfigurationFile(st, filename,
                             [data EXCEPT !.targets = IF @ = <<>> THEN @
                                                      ELSE <<Head(@)>>])

BeginIngest(r, filename, data) ==
    /\ SetStore(r.st)
    /\ ingestCall' = [pc |-> "pending", filename |-> filename, data |-> data,
                      before |-> CurrentStore,
                      earlier |-> ingestCall.earlier \cup {CurrentStore}]
    /\ lastCall' = [op |-> "ingest", nameOk |-> FirstStamp(filename) # 0,
                    error |-> r.error]
    /\ calls' = calls + 1
    /\ UNCHANGED <<statsVars, returned, now, dateParserAccepts, ingestedOk,
                   accepted, statCalls, ticks, phase, lastArgs, statsOnce,
                   tldVars, timelineVars, detVars, alertVars, trendVars,
                   monitorVars, readOut, bucketVars>>

IngestBeginsYielding ==
    /\ ingestCall.pc # "pending"
    /\ calls < MaxStatsIngests
    /\ \E filename \in StampedFilenames, data \in Snapshots :
          BeginIngest(processConfigurationFileYielding(CurrentStore, filename, data),
                      filename, data)

\* processFile: await DataService.processConfigurationFile(filename, data),
\* up to the point where the caller is suspended on the promise
IngestBegins ==
    /\ ingestCall.pc # "pending"
    /\ calls < MaxStatsIngests
    /\ \E filename \in StampedFilenames, data \in Snapshots :
          BeginIngest(processConfigurationFile(CurrentStore, filename, data),
                      filename, data)

ReaderOther ==
    <<storeVars, statsVars, returned, now, dateParserAccepts, lastCall, ingestedOk,
      accepted, calls, statCalls, ticks, phase, lastArgs, statsOnce, tldVars,
      timelineVars, detVars, alertVars, trendVars, monitorVars, bucketVars>>

\* the promise settles and the awaiting caller resumes
IngestSettles ==
    /\ ingestCall.pc = "pending"
    /\ ingestCall' = [ingestCall EXCEPT !.pc = "settled"]
    /\ UNCHANGED <<ReaderOther, readOut>>

ReadOf(kind, arg, st) ==
    CASE kind = "targetsForHost" -> getTargetsForHost(st, arg)
      [] kind = "activeHosts" -> getActiveHosts(st)
      [] kind = "history" -> getTargetHistory(st, arg)

Read(kind, arg) ==
    [kind |-> kind, call |-> calls, arg |-> arg,
     value |-> ReadOf(kind, arg, CurrentStore)]

\* DataService.getTargetsForHost(host)
ReadTargetsForHost ==
    /\ ingestCall.pc = "pending"
    /\ \E host \in PoolHosts : readOut' = Read("targetsForHost", host)
    /\ UNCHANGED <<ReaderOther, ingestCall>>

\* DataService.getActiveHosts()
ReadActiveHosts ==
    /\ ingestCall.pc = "pending"
    /\ readOut' = Read("activeHosts", <<>>)
    /\ UNCHANGED <<ReaderOther, ingestCall>>

\* DataService.getTargetHistory(targetId)
ReadTargetHistory ==
    /\ ingestCall.pc = "pending"
    /\ \E id \in TargetIds : readOut' = Read("history", id)
    /\ UNCHANGED <<ReaderOther, ingestCall>>

NextReaders ==
    \/ IngestBegins
    \/ IngestSettles
    \/ ReadTargetsForHost
    \/ ReadActiveHosts
    \/ ReadTargetHistory
    \/ GetStatistics

SpecReaders == Init /\ [][NextReaders]_vars

(***************************************************************************)
(* Properties                                                              *)
(***************************************************************************)
Zero == Number(0, 1)
StrictlyAscending(h) ==
    \A i \in 1..(Len(h) - 1) : h[i].timestamp < h[i + 1].timestamp
HistoryEntries(id) ==
    LET h == getTargetHistory(CurrentStore, id) IN
    {<<h[i].timestamp, h[i].config>> : i \in DOMAIN h}
Contains(data, id) == FindTarget(data, id) # <<>>
\* every call so far was an ingest that returned without an error
OnlySuccessfulIngests == Len(ingestedOk) = calls

\* C1: an ingest whose file name holds no YYYY-MM-DD_HH-MM-SS stamp fails with
\* the invalid-file-name error and leaves the snapshot store and the target,
\* host, TLD, method and host-timeline indices exactly as they were.
C1_MalformedNameChangesNothing ==
    [][(lastCall'.op = "ingest" /\ ~lastCall'.nameOk)
         => (lastCall'.error = "InvalidFilename" /\ UNCHANGED storeVars)]_vars

C1_Witness ==
    /\ lastCall.op = "ingest"
    /\ ~lastCall.nameOk
    /\ lastCall.error = "InvalidFilename"
    /\ configurationStore # <<>>
    /\ targetIndex # <<>>

\* C2: an ingest that raises an error after its file name was parsed leaves the
\* snapshot store and all indices exactly as they were before the call.
C2_FailedIngestChangesNothing ==
    [][(lastCall'.op = "ingest" /\ lastCall'.nameOk /\ lastCall'.error # "none")
         => UNCHANGED storeVars]_vars

\* C3: for every host h, targetsForHost(h) returns exactly the indexed records
\* whose host is h.
C3_HostIndexConsistent ==
    OnlySuccessfulIngests =>
      \A h \in PoolHosts :
        Range(getTargetsForHost(CurrentStore, h))
          = {MapGet(targetIndex, id) :
               id \in {k \in MapKeySet(targetIndex) : MapGet(targetIndex, k).host = h}}

\* C4: the record the target index holds for a target_id is the record from the
\* retained snapshot with the greatest timestamp among those containing it.
C4_IndexHoldsLatestByTimestamp ==
    OnlySuccessfulIngests =>
    \A id \in MapKeySet(targetIndex) :
        LET holding == {i \in DOMAIN configurationStore :
                          Contains(configurationStore[i][2], id)}
        IN holding # {} =>
             LET newest == CHOOSE i \in holding : \A j \in holding :
                              TimeOfISO(configurationStore[j][1])
                                <= TimeOfISO(configurationStore[i][1])
             IN MapGet(targetIndex, id)
                  = FindTarget(configurationStore[newest][2], id)[1]

\* C5: without clear(), every indexed target_id, host, TLD and method stays
\* indexed across every ingest, and so does every member of a host's, a TLD's
\* and a method's set.
KeysKept(before, after) ==
    /\ MapKeySet(before) \subseteq MapKeySet(after)
    /\ \A k \in MapKeySet(before) :
          Range(MapGet(before, k)) \subseteq Range(MapGet(after, k))

C5_IndexedKeysOnlyGrow ==
    [][lastCall'.op # "clear"
         => /\ MapKeySet(targetIndex) \subseteq MapKeySet(targetIndex')
            /\ KeysKept(hostIndex, hostIndex')
            /\ KeysKept(tldIndex, tldIndex')
            /\ KeysKept(methodIndex, methodIndex')
            /\ KeysKept(timelineIndex, timelineIndex')]_vars

C5_Witness ==
    /\ lastCall.op = "ingest"
    /\ lastCall.error = "none"
    /\ calls = 2
    /\ Len(configurationStore) = 2
    /\ \E id \in MapKeySet(targetIndex) :
          /\ ~Contains(configurationStore[2][2], id)
          /\ \E h \in MapKeySet(hostIndex) : id \in Range(MapGet(hostIndex, h))
          /\ MapHas(methodIndex, MapGet(targetIndex, id).method)
          /\ MapHas(tldIndex, DataExtractTLD(MapGet(targetIndex, id).host))

\* C6 as claimed: historyOf(targetId) is strictly ascending by timestamp and has
\* an entry for every successfully ingested snapshot that contains targetId.
C6_HistoryKeepsEveryIngestedSnapshot ==
    OnlySuccessfulIngests =>
    \A id \in TargetIds :
        /\ StrictlyAscending(getTargetHistory(CurrentStore, id))
        /\ \A p \in Range(ingestedOk) :
              Contains(p[2], id)
                => <<p[1], FindTarget(p[2], id)[1]>> \in HistoryEntries(id)

\* C6 amended: historyOf(targetId) is strictly ascending by timestamp and has
\* exactly one entry for every timestamp whose most recently stored snapshot
\* contains targetId (none when there is no such snapshot); a snapshot is stored
\* once its file name's timestamp was parsed, and a later one stored under the
\* same timestamp replaces it.
C6_HistoryIsLatestPerTimestamp ==
    \A id \in TargetIds :
        /\ StrictlyAscending(getTargetHistory(CurrentStore, id))
        /\ HistoryEntries(id)
             = {<<accepted[i][1], FindTarget(accepted[i][2], id)[1]>> :
                  i \in {j \in DOMAIN accepted : Contains(accepted[j][2], id)}}

C6_Witness ==
    /\ Len(getTargetHistory(CurrentStore, "T1")) = 2
    /\ configurationStore[1][1] = ToISOString([valid |-> TRUE, time |-> 2])
    /\ getTargetHistory(CurrentStore, "T2") = <<>>

\* C7: fresh statistics after ingesting a snapshot twice under the same file
\* name have the same totals and the same method, protocol, port and TLD counts
\* as after ingesting it once.
Counts(distribution, Key(_)) ==
    [i \in DOMAIN distribution |-> <<Key(distribution[i]), distribution[i].count>>]

SameCounts(s, t) ==
    /\ s.totalTargets = t.totalTargets
    /\ s.uniqueHosts = t.uniqueHosts
    /\ s.uniqueIPs = t.uniqueIPs
    /\ Counts(s.methodDistribution, LAMBDA e : e.method)
         = Counts(t.methodDistribution, LAMBDA e : e.method)
    /\ Counts(s.protocolDistribution, LAMBDA e : e.protocol)
         = Counts(t.protocolDistribution, LAMBDA e : e.protocol)
    /\ Counts(s.portDistribution, LAMBDA e : e.port)
         = Counts(t.portDistribution, LAMBDA e : e.port)
    /\ Counts(s.tldDistribution, LAMBDA e : e.tld)
         = Counts(t.tldDistribution, LAMBDA e : e.tld)

C7_ReingestKeepsCounts ==
    phase = "twice" => SameCounts(generateNewSnapshot(CurrentStore, now), statsOnce)

C7_Witness ==
    /\ phase = "twice"
    /\ lastCall.error = "none"
    /\ Len(configurationStore) = 2
    /\ statsOnce.totalTargets = 2
    /\ \E h \in MapKeySet(timelineIndex) : Len(MapGet(timelineIndex, h)) >= 3

\* C8: statistics() called less than 5 minutes after the last recomputation
\* returns the snapshot computed then and keeps it, whatever was ingested since;
\* called before any recomputation or 5 minutes or more after the last one it
\* recomputes from the current indices and keeps the result.
C8_CacheExpiresByAgeOnly ==
    [][statCalls' = statCalls + 1
         => IF lastSnapshot.computed /\ now - snapshotTimestamp < 5 * 60 * 1000
            THEN /\ returned' = lastSnapshot
                 /\ lastSnapshot' = lastSnapshot
                 /\ snapshotTimestamp' = snapshotTimestamp
            ELSE /\ returned' = generateNewSnapshot(CurrentStore, now)
                 /\ lastSnapshot' = returned'
                 /\ snapshotTimestamp' = now]_vars

C8_Witness ==
    /\ lastCall.op = "statistics"
    /\ returned.computed
    /\ returned.timestamp < now
    /\ returned.totalTargets = 0
    /\ Len(getAllTargets(CurrentStore)) = 2

\* C9: statistics freshly computed over an empty target set have every
\* percentage, the SSL-usage percentage included, equal to 0.
C9_EmptySetPercentagesAreZero ==
    (returned.computed /\ returned.totalTargets = 0)
      => /\ returned.sslStats.percentage = Zero
         /\ \A i \in DOMAIN returned.methodDistribution :
               returned.methodDistribution[i].percentage = Zero
         /\ \A i \in DOMAIN returned.protocolDistribution :
               returned.protocolDistribution[i].percentage = Zero
         /\ \A i \in DOMAIN returned.portDistribution :
               returned.portDistribution[i].percentage = Zero
         /\ \A i \in DOMAIN returned.tldDistribution :
               returned.tldDistribution[i].percentage = Zero

\* C10: each of the three extractTLD copies maps a host without a dot to the
\* host itself and any other host to "." followed by its last two dot-separated
\* labels, i.e. by the host's text after its last-but-one dot (the whole host
\* when it has one dot); so the three agree on every host.
DotPositions(host) == {i \in DOMAIN host : host[i] = Dot}
ExpectedTLD(host) ==
    LET dots == DotPositions(host) IN
    IF dots = {} THEN host
    ELSE IF Cardinality(dots) = 1 THEN <<Dot>> \o host
    ELSE LET last == CHOOSE i \in dots : \A j \in dots : j <= i
             cut == CHOOSE i \in dots \ {last} : \A j \in dots \ {last} : j <= i
         IN <<Dot>> \o SubSeq(host, cut + 1, Len(host))

C10_TLDIsLastTwoLabels ==
    /\ tldOut.data.done => tldOut.data.value = ExpectedTLD(tldHost)
    /\ tldOut.stats.done => tldOut.stats.value = ExpectedTLD(tldHost)
    /\ tldOut.detector.done => tldOut.detector.value = ExpectedTLD(tldHost)
    /\ (tldHost = HostA /\ tldOut.data.done)
         => tldOut.data.value = <<".", "g", ".", "l">>
    /\ (tldHost = HostB /\ tldOut.data.done) => tldOut.data.value = HostB

C10_Witness ==
    /\ tldHost = HostA
    /\ tldOut.data.done /\ tldOut.stats.done /\ tldOut.detector.done
    /\ tldOut.data.value = <<".", "g", ".", "l">>
    /\ tldOut.stats.value = tldOut.data.value
    /\ tldOut.detector.value = tldOut.data.value

(***************************************************************************)
(* C11                                                                     *)
(***************************************************************************)
\* the retained snapshots with targets whose timestamp lies in the window, as
\* <<timestamp, number of targets>>
SnapshotCounts(st, window) ==
    {<<TimeOfISO(e[1]), Len(e[2].targets)>> :
        e \in {x \in Range(st.configurationStore) :
                  /\ x[2].hasTargets
                  /\ x[2].targets # <<>>
                  /\ window.start <= TimeOfISO(x[1])
                  /\ TimeOfISO(x[1]) <= window.end}}

\* C11: a timeline that getTimeline(window) returns has exactly one entry per
\* retained snapshot whose timestamp lies in the window, carrying that
\* snapshot's timestamp and counting that snapshot's targets; so a window
\* covering ingested timestamps gives a non-empty timeline, whatever the wall
\* clock, and a window covering none gives an empty one.
C11_TimelineFromObservationTimestamps ==
    [][(timelineCalls' # timelineCalls /\ ~timelineOut'.threw) =>
          {<<e.timestamp, e.targetCount>> : e \in Range(timelineOut'.timeline)}
              = SnapshotCounts(CurrentStore, timelineOut'.window)]_vars

(***************************************************************************)
(* C12 - C15: the detectors                                                *)
(***************************************************************************)
OfType(list, type) == SelectSeq(list, LAMBDA a : a.type = type)
About(list, type, id) ==
    SelectSeq(list, LAMBDA a : a.type = type /\ a.context.targetId = id)
IdsOf(config) == {config.targets[i].target_id : i \in DOMAIN config.targets}
TargetOf(config, id) ==
    config.targets[CHOOSE i \in DOMAIN config.targets :
                      config.targets[i].target_id = id]
ChangeFields ==
    { [type |-> "METHOD_CHANGE", field |-> "method", severity |-> "HIGH"],
      [type |-> "PROTOCOL_CHANGE", field |-> "type", severity |-> "HIGH"],
      [type |-> "PORT_CHANGE", field |-> "port", severity |-> "MEDIUM"],
      [type |-> "SSL_CHANGE", field |-> "use_ssl", severity |-> "HIGH"],
      [type |-> "PATH_CHANGE", field |-> "path", severity |-> "MEDIUM"] }
Differs(prev, new, id, field) == TargetOf(prev, id)[field] # TargetOf(new, id)[field]

\* C12: for two snapshots that carry a target list, TargetChangeDetector.detect
\* returns, for every target_id in both and every field among method,
\* protocol, port, ssl, path, exactly one alert of that field's type when the
\* values differ (HIGH for method/protocol/ssl, MEDIUM for port/path, with
\* the previous and the current value as oldValue and newValue) and none when
\* they are equal; exactly one TARGET_APPEARED (HIGH) per target_id only in
\* current; exactly one TARGET_DISAPPEARED (MEDIUM) per target_id only in
\* previous; and nothing else.  Without a previous snapshot it returns nothing.
C12_TargetChangeAlerts ==
    detOut.targetChange.done =>
      LET out == detOut.targetChange.alerts
          new == detIn.new
          prev == detIn.prev
      IN IF ~prev.given THEN Len(out) = 0
         ELSE (prev.hasTargets /\ new.hasTargets) =>
           /\ \A id \in IdsOf(new) \cap IdsOf(prev) : \A f \in ChangeFields :
                LET hits == About(out, f.type, id) IN
                IF Differs(prev, new, id, f.field)
                THEN /\ Len(hits) = 1
                     /\ hits[1].severity = f.severity
                     /\ hits[1].context.oldValue = TargetOf(prev, id)[f.field]
                     /\ hits[1].context.newValue = TargetOf(new, id)[f.field]
                ELSE Len(hits) = 0
           /\ \A id \in IdsOf(new) \ IdsOf(prev) :
                /\ Len(About(out, "TARGET_APPEARED", id)) = 1
                /\ About(out, "TARGET_APPEARED", id)[1].severity = "HIGH"
           /\ \A id \in IdsOf(prev) \ IdsOf(new) :
                /\ Len(About(out, "TARGET_DISAPPEARED", id)) = 1
                /\ About(out, "TARGET_DISAPPEARED", id)[1].severity = "MEDIUM"
           /\ Len(out) =
                Cardinality({<<id, f>> \in (IdsOf(new) \cap IdsOf(prev)) \X ChangeFields :
                                Differs(prev, new, id, f.field)})
                + Cardinality(IdsOf(new) \ IdsOf(prev))
                + Cardinality(IdsOf(prev) \ IdsOf(new))

\* T1 changed from GET to POST and nothing else: exactly one METHOD_CHANGE
C12_Witness ==
    /\ detOut.targetChange.done
    /\ detIn.prev = Previous(ConfigOf(<<T1Base>>))
    /\ detIn.new = ConfigOf(<<[T1Base EXCEPT !.method = "POST"]>>)
    /\ Len(detOut.targetChange.alerts) = 1
    /\ detOut.targetChange.alerts[1].type = "METHOD_CHANGE"
    /\ detOut.targetChange.alerts[1].severity = "HIGH"
    /\ detOut.targetChange.alerts[1].context.oldValue = "GET"
    /\ detOut.targetChange.alerts[1].context.newValue = "POST"

TotalOf(config) == IF config.hasTargets THEN Len(config.targets) ELSE 0

\* C13: with a previous snapshot that carries a target list, VolumeDetector
\* returns at most one TARGET_VOLUME_INCREASE alert: one of severity HIGH
\* when the previous total is at least 5 and (cur - prev) * 100 / prev >= 100,
\* one of severity MEDIUM when the previous total is at least 5 and the
\* increase is at least 50 and below 100, and none otherwise.
C13_PercentageVolumeAlerts ==
    (detOut.volume.done /\ detIn.prev.given /\ detIn.prev.hasTargets) =>
      LET out == OfType(detOut.volume.alerts, "TARGET_VOLUME_INCREASE")
          p == TotalOf(detIn.prev)
          c == TotalOf(detIn.new)
      IN IF p >= 5 /\ (c - p) * 100 >= 100 * p
         THEN Len(out) = 1 /\ out[1].severity = "HIGH"
         ELSE IF p >= 5 /\ (c - p) * 100 >= 50 * p
         THEN Len(out) = 1 /\ out[1].severity = "MEDIUM"
         ELSE Len(out) = 0

\* previous total 10, current total 25: exactly one alert, HIGH
C13_Witness ==
    /\ detOut.volume.done
    /\ detIn.prev.given /\ detIn.prev.hasTargets
    /\ TotalOf(detIn.prev) = 10
    /\ TotalOf(detIn.new) = 25
    /\ Len(OfType(detOut.volume.alerts, "TARGET_VOLUME_INCREASE")) = 1
    /\ OfType(detOut.volume.alerts, "TARGET_VOLUME_INCREASE")[1].severity = "HIGH"

\* C14: without a previous snapshot, or with one that has no target list,
\* VolumeDetector returns exactly one alert when the current total exceeds
\* 100 (TARGET_VOLUME_INCREASE, MEDIUM, context.currentValue the total) and
\* no alert at all when the total is 100 or less.
C14_FirstRunVolumeAlert ==
    (detOut.volume.done /\ (~detIn.prev.given \/ ~detIn.prev.hasTargets)) =>
      LET out == detOut.volume.alerts
          c == TotalOf(detIn.new)
      IN IF c > 100
         THEN /\ Len(out) = 1
              /\ out[1].type = "TARGET_VOLUME_INCREASE"
              /\ out[1].severity = "MEDIUM"
              /\ out[1].context.currentValue = c
         ELSE Len(out) = 0

\* no previous snapshot, 120 targets: one alert with currentValue 120
C14_Witness ==
    /\ detOut.volume.done
    /\ ~detIn.prev.given
    /\ TotalOf(detIn.new) = 120
    /\ Len(detOut.volume.alerts) = 1
    /\ detOut.volume.alerts[1].context.currentValue = 120

\* the top-level domain of a host: a dot and its last label
LastLabelTLD(host) == <<Dot>> \o Join(SliceLast1(Split(host)))

\* C15: whenever the current snapshot has a target whose host lies under a
\* high-risk top-level domain, TLDDetector.detect returns at least one
\* TLD_VOLUME_INCREASE alert of severity HIGH, with or without a previous
\* snapshot.
C15_HighRiskTLDFlagged ==
    (detOut.tld.done /\ detIn.new.hasTargets) =>
      \A i \in DOMAIN detIn.new.targets :
         LastLabelTLD(detIn.new.targets[i].host) \in HIGH_RISK_TLDS =>
            \E k \in DOMAIN detOut.tld.alerts :
               /\ detOut.tld.alerts[k].type = "TLD_VOLUME_INCREASE"
               /\ detOut.tld.alerts[k].severity = "HIGH"

(***************************************************************************)
(* C16, C17: the alert log                                                 *)
(***************************************************************************)
AlertIds(list) == [k \in DOMAIN list |-> list[k].id]
AlertTypes(list) == [k \in DOMAIN list |-> list[k].type]
IsPrefix(s, t) == Len(s) <= Len(t) /\ SubSeq(t, 1, Len(s)) = s

\* C16: a processConfiguration call returns what its four detect() calls
\* returned, in the order target-change, host-pattern, volume, TLD, and in
\* the step in which it returns the log becomes the log before that step
\* followed by exactly the returned alerts; every step of processConfiguration
\* calls, overlapping or not, keeps the log it found as a prefix, and no alert
\* is in the log twice.
C16_LogAppendsReturnedAlerts ==
    [][/\ \A c \in 1..MaxAlertCalls :
            (inflight[c].pc = "tld" /\ inflight'[c].pc = "done") =>
               LET r == inflight'[c].returned
                   new == inflight[c].new
                   prev == inflight[c].prev
               IN /\ AlertIds(r) = AlertIds(inflight[c].targetChange)
                                    \o AlertIds(inflight[c].hostPattern)
                                    \o AlertIds(inflight[c].volume)
                                    \o AlertIds(inflight[c].tld)
                  /\ AlertTypes(r) = AlertTypes(TargetChangeDetect(new, prev, 0, c))
                                      \o AlertTypes(HostPatternDetect(new, 0, c))
                                      \o AlertTypes(VolumeDetect(new, prev, 0, c))
                                      \o AlertTypes(TLDDetect(new, prev, 0, c))
                  /\ AlertIds(alerts') = AlertIds(alerts) \o AlertIds(r)
       /\ IsPrefix(AlertIds(alerts), AlertIds(alerts'))
       /\ \A i, j \in DOMAIN alerts' : i # j => alerts'[i].id # alerts'[j].id]_vars

\* two calls that overlapped have both returned alerts, and the log holds the
\* alerts of the one that returned first followed by those of the other
C16_Witness ==
    /\ inflight[1].pc = "done" /\ inflight[2].pc = "done"
    /\ inflight[2].overlaps
    /\ inflight[1].returned # <<>> /\ inflight[2].returned # <<>>
    /\ AlertIds(alerts) = AlertIds(inflight[2].returned)
                            \o AlertIds(inflight[1].returned)

\* C17: clearAlerts(d) leaves exactly the alerts whose timestamp is d or
\* later, in their order; clearAlerts() leaves none; every other step leaves
\* the logged alerts in place and in order.
C17_AlertsLeaveOnlyByPruneOrClear ==
    [][IF clears' # clears
       THEN IF alertOp'.given
            THEN AlertIds(alerts') =
                    AlertIds(SelectSeq(alerts,
                                LAMBDA a : a.timestamp >= alertOp'.time))
            ELSE Len(alerts') = 0
       ELSE IsPrefix(AlertIds(alerts), AlertIds(alerts'))]_vars

\* rising by 2 per hour, at least 3 points
RisingByTwo(dataPoints) ==
    /\ Len(dataPoints) >= 3
    /\ \A i \in 2..Len(dataPoints) :
          dataPoints[i].value - dataPoints[i - 1].value =
             2 * (dataPoints[i].hour - dataPoints[i - 1].hour)

\* C18: for a series of at least 3 points rising linearly by 2 per hour (such
\* as [10,12,14,16,18,20] at hourly timestamps), calculateTrend returns
\* "increasing" and calculateConfidence returns 1.
C18_RisingSeriesIsIncreasing ==
    RisingByTwo(series) =>
       /\ trendOut.trend.done => trendOut.trend.value = "increasing"
       /\ trendOut.confidence.done => trendOut.confidence.value = Whole(1)

ConstantSeries(dataPoints) ==
    /\ Len(dataPoints) >= 3
    /\ \A i \in DOMAIN dataPoints : dataPoints[i].value = dataPoints[1].value

\* C19: for a constant series of at least 3 points at distinct increasing
\* timestamps, the trend is "stable", the change rate is 0 and the confidence
\* is 0: no result is not-a-number.
C19_ConstantSeriesDegeneratesToZero ==
    ConstantSeries(series) =>
       /\ trendOut.trend.done => trendOut.trend.value = "stable"
       /\ trendOut.changeRate.done => trendOut.changeRate.value = Whole(0)
       /\ trendOut.confidence.done => trendOut.confidence.value = Whole(0)

FilenamesOf(entries) == [i \in DOMAIN entries |-> entries[i].filename]

\* C20: when stopMonitoring() is called while a check pass is in flight, the
\* pass runs to completion (every file of the cycle is downloaded, parsed and
\* ingested); the loop leaves only from the top of an iteration, with isRunning
\* false; it starts no check pass while stopped; and, unless startMonitoring
\* starts a loop again, it then terminates.
C20_CooperativeCancellation ==
    /\ [][\A l \in 1..MaxStarts :
            /\ (InPass(loops[l]) /\ ~InPass(loops'[l])) =>
                  /\ loops'[l].pc = "waiting"
                  /\ loops'[l].handled = FilenamesOf(loops'[l].cycle)
            /\ (loops[l].pc # "ended" /\ loops'[l].pc = "ended") =>
                  loops[l].pc = "waiting" /\ ~isRunning
            /\ (loops[l].pc # "listing" /\ loops'[l].pc = "listing") => isRunning']_vars
    /\ \A l \in 1..MaxStarts :
          (audit.stopInPass[l] >= 0)
             ~> (\/ l \in audit.excused
                 \/ /\ loops[l].pc = "ended"
                    /\ loops[l].handled = FilenamesOf(loops[l].cycle))

\* a stop fell into a pass with both files still to download, no loop was
\* started afterwards, and the loop has ended with both files handled
C20_Witness ==
    \E l \in 1..MaxStarts :
        /\ audit.stopInPass[l] = MaxFiles
        /\ l \notin audit.excused
        /\ loops[l].pc = "ended"
        /\ Len(loops[l].handled) = MaxFiles

ActiveLoops == {l \in 1..MaxStarts : loops[l].pc \in {"listing", "download", "waiting"}}

\* C21: at most one monitoring loop is active at any time, whatever the
\* interleaving of startMonitoring and stopMonitoring calls: never two loops
\* alternating check and sleep phases.
C21_AtMostOneActiveLoop == Cardinality(ActiveLoops) <= 1

\* what the three detectors that did not raise produced in call c
OthersProduced(c) ==
    inflight[c].targetChange \o inflight[c].hostPattern \o inflight[c].volume

\* C22: when one detector raises in a processConfiguration call, the alerts the
\* other three produced in that call are still appended to the log (and
\* returned).
C22_DetectorFailureIsIsolated ==
    \A c \in 1..MaxAlertCalls :
        inflight[c].pc = "threw" =>
           \A id \in Range(AlertIds(OthersProduced(c))) : id \in Range(AlertIds(alerts))

\* the store a completed run of the call in flight leaves
AfterIngest ==
    processConfigurationFile(ingestCall.before, ingestCall.filename,
                             ingestCall.data).st
ReadDuringIngest ==
    readOut.kind # "none" /\ readOut.call = calls /\ ingestCall.pc # "idle"

SortedObservations == SortByTimestamp(tlIn)
Buckets == tlOut.groups.value
RECURSIVE SizeBefore(_, _)
SizeBefore(groups, k) ==
    IF k = 1 THEN 0 ELSE SizeBefore(groups, k - 1) + Len(groups[k - 1][2])
FirstOf(k) == SizeBefore(Buckets, k) + 1
LastOf(k) == SizeBefore(Buckets, k) + Len(Buckets[k][2])
AnchorOf(k) == SortedObservations[FirstOf(k)].timestamp

\* C24: the buckets split the timestamp-ordered observations into consecutive
\* stretches that are not empty (each observation is in exactly one bucket); a
\* bucket is keyed by the timestamp of its first observation, the anchor;
\* every observation of a bucket is at most 15 minutes after the anchor; the
\* anchor of each later bucket is more than 15 minutes after the anchor of the
\* bucket before it; an observation exactly 15 minutes after an anchor is in
\* that anchor's bucket.
C24_BucketsAreGreedyByAnchor ==
    tlOut.groups.done =>
       /\ Concat([k \in DOMAIN Buckets |-> Buckets[k][2]])
             = [i \in DOMAIN SortedObservations |-> SortedObservations[i].target]
       /\ \A k \in DOMAIN Buckets :
             /\ Buckets[k][2] # <<>>
             /\ Buckets[k][1] = ToISOString(DateOf(AnchorOf(k)))
             /\ \A i \in FirstOf(k)..LastOf(k) :
                   /\ SortedObservations[i].timestamp >= AnchorOf(k)
                   /\ SortedObservations[i].timestamp - AnchorOf(k)
                         <= TIME_WINDOW_THRESHOLD
             /\ k > 1 => AnchorOf(k) - AnchorOf(k - 1) > TIME_WINDOW_THRESHOLD
             /\ \A i \in DOMAIN SortedObservations :
                   SortedObservations[i].timestamp - AnchorOf(k)
                         = TIME_WINDOW_THRESHOLD
                      => i \in FirstOf(k)..LastOf(k)

C24_Witness ==
    /\ tlOut.groups.done
    /\ Len(Buckets) = 2
    /\ \E i \in FirstOf(1)..LastOf(1) :
          SortedObservations[i].timestamp - AnchorOf(1) = TIME_WINDOW_THRESHOLD
    /\ AnchorOf(2) - SortedObservations[LastOf(1)].timestamp = 1

\* the buckets createTimelineEntries is handed, oldest first
Grouped == groupTargetsByTimestamp(tlIn)
OncePerBucket ==
    \A k \in DOMAIN Grouped :
       \A i, j \in DOMAIN Grouped[k][2] :
          i # j => Grouped[k][2][i].target_id # Grouped[k][2][j].target_id
TimelineChangeFields ==
    {<<"method", "method">>, <<"protocol", "type">>, <<"port", "port">>,
     <<"path", "path">>, <<"ssl", "use_ssl">>}
\* <<target, old value, new value>> of the changes a timeline entry reports for
\* one kind of change, and of the differences between two buckets in that field
ReportedChanges(entry, f) ==
    {<<entry.configChanges[i].targetId, entry.configChanges[i].oldValue,
       entry.configChanges[i].newValue>> :
        i \in {j \in DOMAIN entry.configChanges :
                  entry.configChanges[j].changeType = f[1]}}
DifferencesBetween(previous, current, f) ==
    {<<previous[i].target_id, previous[i][f[2]], current[j][f[2]]>> :
        <<i, j>> \in {ij \in (DOMAIN previous) \X (DOMAIN current) :
                        /\ previous[ij[1]].target_id = current[ij[2]].target_id
                        /\ previous[ij[1]][f[2]] # current[ij[2]][f[2]]}}

Appearances == tlOut.history.value.appearances
EntriesOf(k) ==
    {i \in DOMAIN HistoryOfT1 :
        /\ HistoryOfT1[i].timestamp >= Appearances[k].start
        /\ HistoryOfT1[i].timestamp <= Appearances[k].end}

\* C26: the appearances of a target cut its timestamp-ordered history into
\* consecutive runs: every entry lies in exactly one appearance; the entries
\* of an appearance agree with its configuration in method, protocol, port,
\* path and ssl, and each is at most 15 minutes after the entry before it in
\* the run; an appearance starts and ends at its first and last entry, so
\* start <= end; two appearances in a row differ in one of the five fields or
\* lie more than 15 minutes apart; the first start and the last end are the
\* first and last timestamp of the history.
C26_AppearancesAreMaximalRuns ==
    tlOut.history.done =>
       /\ Appearances # <<>>
       /\ Appearances[1].start = HistoryOfT1[1].timestamp
       /\ Appearances[Len(Appearances)].end
             = HistoryOfT1[Len(HistoryOfT1)].timestamp
       /\ tlOut.history.value.firstSeen = Appearances[1].start
       /\ tlOut.history.value.lastSeen = Appearances[Len(Appearances)].end
       /\ \A i \in DOMAIN HistoryOfT1 :
             Cardinality({k \in DOMAIN Appearances : i \in EntriesOf(k)}) = 1
       /\ \A k \in DOMAIN Appearances :
             /\ Appearances[k].start <= Appearances[k].end
             /\ \E i, j \in EntriesOf(k) :
                   /\ HistoryOfT1[i].timestamp = Appearances[k].start
                   /\ HistoryOfT1[j].timestamp = Appearances[k].end
             /\ \A i \in EntriesOf(k) :
                   /\ areConfigsEqual(HistoryOfT1[i].config, Appearances[k].config)
                   /\ (i - 1) \in EntriesOf(k) =>
                         HistoryOfT1[i].timestamp - HistoryOfT1[i - 1].timestamp
                            <= TIME_WINDOW_THRESHOLD
             /\ k > 1 =>
                   \/ ~areConfigsEqual(Appearances[k - 1].config,
                                       Appearances[k].config)
                   \/ Appearances[k].start - Appearances[k - 1].end
                         > TIME_WINDOW_THRESHOLD

C26_Witness ==
    /\ tlOut.history.done
    /\ Len(HistoryOfT1) = 3
    /\ Len(Appearances) = 2
    /\ Appearances[1].end - Appearances[1].start = TIME_WINDOW_THRESHOLD
    /\ areConfigsEqual(Appearances[1].config, Appearances[2].config)

\* C27: no getTimeline(window) call raises an error, the call that finds the
\* empty list cached for its window included.
C27_GetTimelineNeverRaises ==
    timelineOut.called => ~timelineOut.threw

\* the category the AlertType enumeration groups a type under
CategoryOfType(type) ==
    IF type \in {"METHOD_CHANGE", "PROTOCOL_CHANGE", "PORT_CHANGE", "SSL_CHANGE",
                 "PATH_CHANGE", "TARGET_APPEARED", "TARGET_DISAPPEARED"}
    THEN "TARGET_CHANGE"
    ELSE IF type \in {"MULTIPLE_TARGETS_HOST", "MULTIPLE_HOSTS_IP",
                      "HOST_IP_CHANGE"}
    THEN "HOST_PATTERN"
    ELSE IF type \in {"TARGET_VOLUME_INCREASE", "UNIQUE_HOSTS_INCREASE",
                      "UNIQUE_IPS_INCREASE"}
    THEN "VOLUME"
    ELSE "TLD"

\* C28: every alert of the log carries the category its type is grouped under:
\* the five change types, TARGET_APPEARED and TARGET_DISAPPEARED are
\* TARGET_CHANGE; MULTIPLE_TARGETS_HOST, MULTIPLE_HOSTS_IP and HOST_IP_CHANGE
\* are HOST_PATTERN; the three volume types are VOLUME; NEW_TLD and
\* TLD_VOLUME_INCREASE are TLD.
C28_CategoryFollowsType ==
    \A i \in DOMAIN alerts : alerts[i].category = CategoryOfType(alerts[i].type)

\* C29: lastProcessedTimestamp never lies beyond the timestamp of a file whose
\* download, parse or ingest failed and has not succeeded since, so the file
\* stays among the new files of the next pass.
C29_FailedFilesStayNew ==
    \A t \in audit.failed : lastProcessedTimestamp <= t

RECURSIVE SumOfCounts(_)
SumOfCounts(distribution) ==
    IF distribution = <<>> THEN 0
    ELSE Head(distribution).count + SumOfCounts(Tail(distribution))

\* C30: after any sequence of ingests that returned, the totalTargets of a
\* freshly computed statistics snapshot is the number of distinct target_ids
\* the store knows (getTotalTargets), and the counts of its method
\* distribution add up to that number.
C30_StatisticsCountDistinctTargets ==
    (OnlySuccessfulIngests /\ calls > 0) =>
       LET fresh == generateNewSnapshot(CurrentStore, now) IN
       /\ fresh.totalTargets = getTotalTargets(CurrentStore)
       /\ SumOfCounts(fresh.methodDistribution) = getTotalTargets(CurrentStore)

====
